---- MODULE Spec2Model ----
(***************************************************************************)
(* NFC tag scanner (src/script.js, class NFCScanner, second definition     *)
(* starting at line 207): the NDEF record decoder, the tag technical       *)
(* inspector, the report builder and the scanning state machine.           *)
(*                                                                         *)
(* JavaScript values are represented as follows.                           *)
(*   - a string computed from payload bytes (decoded text, hex and ascii   *)
(*     renderings, urls) is the sequence of its code points;               *)
(*   - a fixed label or message is a TLA+ string;                          *)
(*   - an optional value (null / undefined / absent) is None == <<>>, a    *)
(*     present value v is Some(v) == <<v>>;                                *)
(*   - record.data is [kind, bytes]: kind "Uint8Array" is an indexable     *)
(*     byte array (data[0], data.slice exist), kind "DataView" is the      *)
(*     type the Web NFC API gives NDEFRecord.data (byteLength exists,      *)
(*     data[0] is undefined, data.slice is not a function, Array.from      *)
(*     yields []), kind "null" is a record without data.                   *)
(***************************************************************************)
EXTENDS Integers, Sequences, FiniteSets, TLC

VARIABLES
    \* ---- scanner (NFCScanner instance and its environment)
    isScanning,       \* this.isScanning
    reader,           \* this.reader: None or Some(reader id)
    lastTagData,      \* this.lastTagData: None or Some(report)
    statusIndicator,  \* status part of statusIndicator.className
    errorMessage,     \* errorSection: None (hidden) or Some(message shown)
    resultsShown,     \* resultsSection: None (hidden/cleared) or Some(report displayed)
    scanPromises,     \* readers whose scan() promise is pending
    readingListeners, \* reader id -> number of 'reading' listeners registered
    errorListeners,   \* reader id -> number of 'readingerror' listeners registered
    timers,           \* number of pending auto-stop timers (setTimeout 2000)
    activeReaders,    \* readers whose scan() has resolved: they dispatch events
    readersCreated,   \* number of NDEFReader objects constructed so far
    dispatched,       \* Some(event) after a step that handled a 'reading' event, else None
    exported,         \* Some(outcome) after a step that ran exportData, else None
    staleTimers,      \* pending timers that were set before the latest startScanning
    \* ---- record decoder harness
    record,           \* the raw record given to the decoder
    structuredRecord, \* None, or Some(createStructuredRecord(record, 0))
    parsedResult,     \* None, or Some(outcome of parseRecordDataStructured(record))
    rawText,          \* None, or Some(formatRawData(record.data))
    textualResult,    \* None, or Some(parseRecordData(record)) of a text or url record
    \* ---- tag inspector harness
    tag,              \* the tag metadata given to the inspector
    tagTypeLabel,     \* None, or Some(determineTagType(tag.tech))
    memoryInfo,       \* None, or Some(getMemoryInfo(tag))
    \* ---- report builder harness
    reportEvent,      \* the reading event given to the report builder
    report,           \* None, or Some(createStructuredTagData(reportEvent, records))
    csv               \* None, or Some(rows downloadCSV writes for report)

scannerVars == <<isScanning, reader, lastTagData, statusIndicator, errorMessage,
                 resultsShown, scanPromises, readingListeners, errorListeners,
                 timers, activeReaders, readersCreated, dispatched, exported,
                 staleTimers>>
decoderVars == <<record, structuredRecord, parsedResult, rawText, textualResult>>
tagVars == <<tag, tagTypeLabel, memoryInfo>>
reportVars == <<reportEvent, report, csv>>
vars == <<scannerVars, decoderVars, tagVars, reportVars>>

None == <<>>
Some(v) == <<v>>
IsSome(o) == o # <<>>
Val(o) == o[1]

Min(a, b) == IF a < b THEN a ELSE b
Max(a, b) == IF a > b THEN a ELSE b

(***************************************************************************)
(* Bounds of the model.                                                    *)
(***************************************************************************)
\* payload bytes after the first byte
MaxBody == 2
\* NDEFReader objects constructed in one run
MaxReaders == 2
\* auto-stop timers pending at once
MaxTimers == 2
\* technologies listed by one tag
MaxTech == 2

(***************************************************************************)
(* Byte utilities.                                                         *)
(***************************************************************************)
Byte == 0..255

\* Array.prototype.join on a sequence of strings (code point sequences).
RECURSIVE JoinCP(_, _)
JoinCP(parts, sep) ==
    IF parts = <<>> THEN <<>>
    ELSE IF Len(parts) = 1 THEN parts[1]
    ELSE parts[1] \o sep \o JoinCP(Tail(parts), sep)

\* One hexadecimal digit of Number.prototype.toString(16): lowercase.
HexDigit(n) == IF n < 10 THEN 48 + n ELSE 87 + n

\* b.toString(16).padStart(2, '0') for a byte b.
HexByte(b) == IF b < 16 THEN <<48, HexDigit(b)>>
              ELSE <<HexDigit(b \div 16), HexDigit(b % 16)>>

\* dataArray.map(b => b.toString(16).padStart(2, '0')).join(' ')
toHex(dataArray) == JoinCP([i \in 1..Len(dataArray) |-> HexByte(dataArray[i])], <<32>>)

\* (b >= 32 && b <= 126) ? String.fromCharCode(b) : '.'
AsciiChar(b) == IF b >= 32 /\ b <= 126 THEN b ELSE 46

\* dataArray.map(...).join('')
toAscii(dataArray) == [i \in 1..Len(dataArray) |-> AsciiChar(dataArray[i])]

\* data.byteLength
byteLength(data) == Len(data.bytes)

\* Array.from(data): the bytes of a typed array; a DataView is neither
\* iterable nor array-like, so Array.from gives the empty array.
ArrayFrom(data) == IF data.kind = "Uint8Array" THEN data.bytes ELSE <<>>

\* data[0]: the first byte of a typed array, undefined past its end and
\* undefined on a DataView.
ByteAt0(data) ==
    IF data.kind = "Uint8Array" /\ Len(data.bytes) > 0 THEN Some(data.bytes[1]) ELSE None

\* x & mask for x a byte or undefined (ToInt32(undefined) = 0), mask = 2^k - 1.
AndLowBits(x, modulus) == IF IsSome(x) THEN Val(x) % modulus ELSE 0

\* (x & 0x80) != 0
Bit7(x) == IF IsSome(x) THEN (Val(x) \div 128) % 2 = 1 ELSE FALSE

\* TypedArray.prototype.slice(start, end), 0-based, end exclusive, clamped.
Slice(bytes, start, end) ==
    SubSeq(bytes, Min(start, Len(bytes)) + 1, Min(end, Len(bytes)))

(***************************************************************************)
(* new TextDecoder().decode(bytes): the WHATWG UTF-8 decoder, not fatal    *)
(* (a malformed sequence becomes U+FFFD, nothing is thrown), and with the  *)
(* default ignoreBOM = false (a leading EF BB BF is dropped).              *)
(***************************************************************************)
Replacement == 65533

Utf8Start == [cp |-> 0, needed |-> 0, seen |-> 0, lower |-> 128, upper |-> 191]

\* One step of the decoder on byte b in state st: the new state, the code
\* points emitted and whether b has to be processed again.
Utf8Step(st, b) ==
    IF st.needed = 0 THEN
        IF b <= 127 THEN [st |-> Utf8Start, out |-> <<b>>, again |-> FALSE]
        ELSE IF b >= 194 /\ b <= 223 THEN
            [st |-> [Utf8Start EXCEPT !.needed = 1, !.cp = b % 32],
             out |-> <<>>, again |-> FALSE]
        ELSE IF b >= 224 /\ b <= 239 THEN
            [st |-> [Utf8Start EXCEPT !.needed = 2, !.cp = b % 16,
                                      !.lower = IF b = 224 THEN 160 ELSE 128,
                                      !.upper = IF b = 237 THEN 159 ELSE 191],
             out |-> <<>>, again |-> FALSE]
        ELSE IF b >= 240 /\ b <= 244 THEN
            [st |-> [Utf8Start EXCEPT !.needed = 3, !.cp = b % 8,
                                      !.lower = IF b = 240 THEN 144 ELSE 128,
                                      !.upper = IF b = 244 THEN 143 ELSE 191],
             out |-> <<>>, again |-> FALSE]
        ELSE [st |-> Utf8Start, out |-> <<Replacement>>, again |-> FALSE]
    ELSE IF b < st.lower \/ b > st.upper THEN
        [st |-> Utf8Start, out |-> <<Replacement>>, again |-> TRUE]
    ELSE
        LET cp == st.cp * 64 + (b % 64) IN
        IF st.seen + 1 = st.needed
        THEN [st |-> Utf8Start, out |-> <<cp>>, again |-> FALSE]
        ELSE [st |-> [st EXCEPT !.cp = cp, !.seen = st.seen + 1,
                                !.lower = 128, !.upper = 191],
              out |-> <<>>, again |-> FALSE]

RECURSIVE Utf8Run(_, _, _)
Utf8Run(bytes, i, st) ==
    IF i > Len(bytes) THEN (IF st.needed # 0 THEN <<Replacement>> ELSE <<>>)
    ELSE LET r == Utf8Step(st, bytes[i]) IN
         r.out \o Utf8Run(bytes, IF r.again THEN i ELSE i + 1, r.st)

\* decoder.decode(bytes)
TextDecode(bytes) ==
    LET hasBom == Len(bytes) >= 3 /\ bytes[1] = 239 /\ bytes[2] = 187 /\ bytes[3] = 191
    IN  Utf8Run(IF hasBom THEN SubSeq(bytes, 4, Len(bytes)) ELSE bytes, 1, Utf8Start)

(***************************************************************************)
(* URL prefix table (urlPrefixes), entries as code point sequences.        *)
(***************************************************************************)
urlPrefixes == <<
    <<>>,  \* 0: ''
    <<104, 116, 116, 112, 58, 47, 47, 119, 119, 119, 46>>,  \* 1: 'http://www.'
    <<104, 116, 116, 112, 115, 58, 47, 47, 119, 119, 119, 46>>,  \* 2: 'https://www.'
    <<104, 116, 116, 112, 58, 47, 47>>,  \* 3: 'http://'
    <<104, 116, 116, 112, 115, 58, 47, 47>>,  \* 4: 'https://'
    <<116, 101, 108, 58>>,  \* 5: 'tel:'
    <<109, 97, 105, 108, 116, 111, 58>>,  \* 6: 'mailto:'
    <<102, 116, 112, 58, 47, 47, 97, 110, 111, 110, 121, 109, 111, 117, 115, 58, 97, 110, 111, 110, 121, 109, 111, 117, 115, 64>>,  \* 7: 'ftp://anonymous:anonymous@'
    <<102, 116, 112, 58, 47, 47, 102, 116, 112, 46>>,  \* 8: 'ftp://ftp.'
    <<102, 116, 112, 115, 58, 47, 47>>,  \* 9: 'ftps://'
    <<115, 102, 116, 112, 58, 47, 47>>,  \* 10: 'sftp://'
    <<115, 109, 98, 58, 47, 47>>,  \* 11: 'smb://'
    <<110, 102, 115, 58, 47, 47>>,  \* 12: 'nfs://'
    <<102, 116, 112, 58, 47, 47>>,  \* 13: 'ftp://'
    <<100, 97, 118, 58, 47, 47>>,  \* 14: 'dav://'
    <<110, 101, 119, 115, 58>>,  \* 15: 'news:'
    <<116, 101, 108, 110, 101, 116, 58, 47, 47>>,  \* 16: 'telnet://'
    <<105, 109, 97, 112, 58>>,  \* 17: 'imap:'
    <<114, 116, 115, 112, 58, 47, 47>>,  \* 18: 'rtsp://'
    <<117, 114, 110, 58>>,  \* 19: 'urn:'
    <<112, 111, 112, 58>>,  \* 20: 'pop:'
    <<115, 105, 112, 58>>,  \* 21: 'sip:'
    <<115, 105, 112, 115, 58>>,  \* 22: 'sips:'
    <<116, 102, 116, 112, 58>>,  \* 23: 'tftp:'
    <<98, 116, 115, 112, 112, 58, 47, 47>>,  \* 24: 'btspp://'
    <<98, 116, 108, 50, 99, 97, 112, 58, 47, 47>>,  \* 25: 'btl2cap://'
    <<98, 116, 103, 111, 101, 112, 58, 47, 47>>,  \* 26: 'btgoep://'
    <<116, 99, 112, 111, 98, 101, 120, 58, 47, 47>>,  \* 27: 'tcpobex://'
    <<105, 114, 100, 97, 111, 98, 101, 120, 58, 47, 47>>,  \* 28: 'irdaobex://'
    <<102, 105, 108, 101, 58, 47, 47>>,  \* 29: 'file://'
    <<117, 114, 110, 58, 101, 112, 99, 58, 105, 100, 58>>,  \* 30: 'urn:epc:id:'
    <<117, 114, 110, 58, 101, 112, 99, 58, 116, 97, 103, 58>>,  \* 31: 'urn:epc:tag:'
    <<117, 114, 110, 58, 101, 112, 99, 58, 112, 97, 116, 58>>,  \* 32: 'urn:epc:pat:'
    <<117, 114, 110, 58, 101, 112, 99, 58, 114, 97, 119, 58>>,  \* 33: 'urn:epc:raw:'
    <<117, 114, 110, 58, 101, 112, 99, 58>>,  \* 34: 'urn:epc:'
    <<117, 114, 110, 58, 110, 102, 99, 58>>  \* 35: 'urn:nfc:'
>>

\* urlPrefixes[prefixCode] || '': undefined for an index outside the array
\* and for an undefined index.
UrlPrefix(prefixCode) ==
    IF IsSome(prefixCode) /\ Val(prefixCode) + 1 <= Len(urlPrefixes)
    THEN urlPrefixes[Val(prefixCode) + 1] ELSE <<>>

(***************************************************************************)
(* JSON.parse and JSON.stringify(value, null, 2), lines 850-851, on texts  *)
(* of objects, arrays, strings without escapes and unsigned integers,      *)
(* with blanks between tokens.  A parsed value is [t, v]: t = "num" with   *)
(* v the digits, "str" with v the characters, "arr" with v the elements,   *)
(* "obj" with v the <<key, value>> members in source order.                *)
(***************************************************************************)
IsJsonBlank(c) == c \in {32, 9, 10, 13}
IsDigit(c) == c >= 48 /\ c <= 57

RECURSIVE SkipBlanks(_, _)
SkipBlanks(s, i) ==
    IF i <= Len(s) /\ IsJsonBlank(s[i]) THEN SkipBlanks(s, i + 1) ELSE i

RECURSIVE ScanDigits(_, _)
ScanDigits(s, i) == IF i <= Len(s) /\ IsDigit(s[i]) THEN ScanDigits(s, i + 1) ELSE i

\* The index of the closing quote of a string whose first character is at
\* i, or 0 when the string is not closed or holds an escape or a control
\* character.
RECURSIVE ScanString(_, _)
ScanString(s, i) ==
    IF i > Len(s) THEN 0
    ELSE IF s[i] = 34 THEN i
    ELSE IF s[i] = 92 \/ s[i] < 32 THEN 0
    ELSE ScanString(s, i + 1)

JsonFail == [ok |-> FALSE, next |-> 0, val |-> [t |-> "none", v |-> <<>>]]

RECURSIVE JsonValue(_, _)
RECURSIVE JsonElements(_, _, _)
RECURSIVE JsonMembers(_, _, _)

\* A value starting at or after index i (blanks skipped).
JsonValue(s, i0) ==
    LET i == SkipBlanks(s, i0) IN
    IF i > Len(s) THEN JsonFail
    ELSE IF IsDigit(s[i]) THEN
        LET j == ScanDigits(s, i) IN
        IF s[i] = 48 /\ j > i + 1 THEN JsonFail
        ELSE [ok |-> TRUE, next |-> j, val |-> [t |-> "num", v |-> SubSeq(s, i, j - 1)]]
    ELSE IF s[i] = 34 THEN
        LET j == ScanString(s, i + 1) IN
        IF j = 0 THEN JsonFail
        ELSE [ok |-> TRUE, next |-> j + 1,
              val |-> [t |-> "str", v |-> SubSeq(s, i + 1, j - 1)]]
    ELSE IF s[i] = 91 THEN
        LET j == SkipBlanks(s, i + 1) IN
        IF j <= Len(s) /\ s[j] = 93
        THEN [ok |-> TRUE, next |-> j + 1, val |-> [t |-> "arr", v |-> <<>>]]
        ELSE JsonElements(s, j, <<>>)
    ELSE IF s[i] = 123 THEN
        LET j == SkipBlanks(s, i + 1) IN
        IF j <= Len(s) /\ s[j] = 125
        THEN [ok |-> TRUE, next |-> j + 1, val |-> [t |-> "obj", v |-> <<>>]]
        ELSE JsonMembers(s, j, <<>>)
    ELSE JsonFail

\* The elements of an array after its "[" , then "]".
JsonElements(s, i, acc) ==
    LET e == JsonValue(s, i) IN
    IF ~e.ok THEN JsonFail
    ELSE LET j == SkipBlanks(s, e.next) IN
         IF j > Len(s) THEN JsonFail
         ELSE IF s[j] = 93
              THEN [ok |-> TRUE, next |-> j + 1,
                    val |-> [t |-> "arr", v |-> Append(acc, e.val)]]
         ELSE IF s[j] = 44 THEN JsonElements(s, j + 1, Append(acc, e.val))
         ELSE JsonFail

\* The members of an object after its "{" , then "}".
JsonMembers(s, i0, acc) ==
    LET i == SkipBlanks(s, i0) IN
    IF i > Len(s) \/ s[i] # 34 THEN JsonFail
    ELSE LET k == ScanString(s, i + 1) IN
         IF k = 0 THEN JsonFail
         ELSE LET c == SkipBlanks(s, k + 1) IN
              IF c > Len(s) \/ s[c] # 58 THEN JsonFail
              ELSE LET e == JsonValue(s, c + 1) IN
                   IF ~e.ok THEN JsonFail
                   ELSE LET j == SkipBlanks(s, e.next)
                            m == Append(acc, <<SubSeq(s, i + 1, k - 1), e.val>>)
                        IN  IF j > Len(s) THEN JsonFail
                            ELSE IF s[j] = 125
                                 THEN [ok |-> TRUE, next |-> j + 1,
                                       val |-> [t |-> "obj", v |-> m]]
                            ELSE IF s[j] = 44 THEN JsonMembers(s, j + 1, m)
                            ELSE JsonFail

\* JSON.parse(text): None when it throws (SyntaxError), else Some(value).
JsonParse(text) ==
    LET r == JsonValue(text, 1) IN
    IF r.ok /\ SkipBlanks(text, r.next) > Len(text) THEN Some(r.val) ELSE None

RECURSIVE Spaces(_)
Spaces(n) == IF n = 0 THEN <<>> ELSE <<32>> \o Spaces(n - 1)

\* JSON.stringify(value, null, 2) of a parsed value at nesting depth d.
RECURSIVE JsonStringify(_, _)
JsonStringify(val, d) ==
    IF val.t = "num" THEN val.v
    ELSE IF val.t = "str" THEN <<34>> \o val.v \o <<34>>
    ELSE IF val.t = "arr" THEN
        IF val.v = <<>> THEN <<91, 93>>
        ELSE <<91, 10>>
             \o JoinCP([k \in 1..Len(val.v) |->
                           Spaces(2 * (d + 1)) \o JsonStringify(val.v[k], d + 1)],
                       <<44, 10>>)
             \o <<10>> \o Spaces(2 * d) \o <<93>>
    ELSE
        IF val.v = <<>> THEN <<123, 125>>
        ELSE <<123, 10>>
             \o JoinCP([k \in 1..Len(val.v) |->
                           Spaces(2 * (d + 1)) \o <<34>> \o val.v[k][1] \o <<34, 58, 32>>
                           \o JsonStringify(val.v[k][2], d + 1)],
                       <<44, 10>>)
             \o <<10>> \o Spaces(2 * d) \o <<125>>

\* mimeType.includes('json')
IncludesJson(mimeType) ==
    \E i \in 1..Len(mimeType) :
        i + 3 <= Len(mimeType) /\ SubSeq(mimeType, i, i + 3) = "json"

(***************************************************************************)
(* Record decoder.                                                         *)
(***************************************************************************)
EmptyMetadata == [language |-> None, encoding |-> None, prefix_code |-> None]

\* Outcome of a block of code: it returns value, or it throws error.
Return(v) == [threw |-> FALSE, error |-> "", value |-> v]
Throw(msg) == [threw |-> TRUE, error |-> msg, value |-> None]

SliceNotAFunction == "record.data.slice is not a function"

\* case 'text' of the switch, lines 486-495.
StructuredTextCase(data) ==
    LET statusByte == ByteAt0(data)
        languageCodeLength == AndLowBits(statusByte, 64)
        encoding == IF Bit7(statusByte) THEN "UTF-16" ELSE "UTF-8"
    IN  IF data.kind # "Uint8Array" THEN Throw(SliceNotAFunction)
        ELSE LET languageCode == TextDecode(Slice(data.bytes, 1, 1 + languageCodeLength))
                 text == TextDecode(Slice(data.bytes, 1 + languageCodeLength, Len(data.bytes)))
             IN  Return([content |-> Some(text),
                         metadata |-> [EmptyMetadata EXCEPT !.language = Some(languageCode),
                                                            !.encoding = Some(encoding)]])

\* case 'url' of the switch, lines 497-514.
StructuredUrlCase(data) ==
    LET prefixCode == ByteAt0(data)
        prefix == UrlPrefix(prefixCode)
    IN  IF data.kind # "Uint8Array" THEN Throw(SliceNotAFunction)
        ELSE LET url == TextDecode(Slice(data.bytes, 1, Len(data.bytes)))
             IN  Return([content |-> Some(prefix \o url),
                         metadata |-> [EmptyMetadata EXCEPT !.prefix_code = prefixCode]])

\* default of the switch, lines 516-521: decode accepts any buffer view.
StructuredDefaultCase(data) ==
    Return([content |-> Some(TextDecode(data.bytes)), metadata |-> EmptyMetadata])

\* parseRecordDataStructured(record): it never throws; its value is null
\* (None) or the parsed content.
parseRecordDataStructured(rec) ==
    IF rec.data.kind = "null" THEN Return(None)
    ELSE LET r == CASE rec.recordType = "text" -> StructuredTextCase(rec.data)
                    [] rec.recordType = "url" -> StructuredUrlCase(rec.data)
                    [] OTHER -> StructuredDefaultCase(rec.data)
         IN  IF r.threw
             THEN Return(Some([type |-> rec.recordType, content |-> None,
                               metadata |-> EmptyMetadata, error |-> Some(r.error)]))
             ELSE Return(Some([type |-> rec.recordType, content |-> r.value.content,
                               metadata |-> r.value.metadata, error |-> None]))

\* Whether a raw record has a payload that is not empty.
HasPayload(rec) == rec.data.kind # "null" /\ Len(rec.data.bytes) > 0

\* x || fallback for an optional string x ('' is falsy).
OrElse(x, fallback) == IF IsSome(x) /\ Val(x) # "" THEN Val(x) ELSE fallback

\* A builder that renders and parses the data of a record whenever the
\* record has data, of length 0 or not.
createStructuredRecordOfAnyLength(rec, index) ==
    LET base == [index |-> index,
                 record_type |-> OrElse(Some(rec.recordType), "unknown"),
                 tnf |-> IF IsSome(rec.tnf) THEN Val(rec.tnf) ELSE 0,
                 media_type |-> IF IsSome(rec.mediaType) /\ Val(rec.mediaType) # ""
                                THEN rec.mediaType ELSE None,
                 id |-> IF IsSome(rec.id) /\ Val(rec.id) # "" THEN rec.id ELSE None,
                 data |-> [byte_length |-> IF rec.data.kind # "null"
                                           THEN byteLength(rec.data) ELSE 0,
                           hex |-> None, ascii |-> None, parsed_content |-> None],
                 parsing_error |-> None]
    IN  IF rec.data.kind # "null" THEN
            LET dataArray == ArrayFrom(rec.data)
                parsed == parseRecordDataStructured(rec)
                rendered == [base EXCEPT !.data.hex = Some(toHex(dataArray)),
                                         !.data.ascii = Some(toAscii(dataArray))]
            IN  IF parsed.threw
                THEN [rendered EXCEPT !.parsing_error = Some(parsed.error)]
                ELSE [rendered EXCEPT !.data.parsed_content = parsed.value]
        ELSE base

\* createStructuredRecord(record, index), lines 436-472.
createStructuredRecord(rec, index) ==
    LET base == [index |-> index,
                 record_type |-> OrElse(Some(rec.recordType), "unknown"),
                 tnf |-> IF IsSome(rec.tnf) THEN Val(rec.tnf) ELSE 0,
                 media_type |-> IF IsSome(rec.mediaType) /\ Val(rec.mediaType) # ""
                                THEN rec.mediaType ELSE None,
                 id |-> IF IsSome(rec.id) /\ Val(rec.id) # "" THEN rec.id ELSE None,
                 data |-> [byte_length |-> IF rec.data.kind # "null"
                                           THEN byteLength(rec.data) ELSE 0,
                           hex |-> None, ascii |-> None, parsed_content |-> None],
                 parsing_error |-> None]
    IN  IF rec.data.kind # "null" /\ byteLength(rec.data) > 0 THEN
            LET dataArray == ArrayFrom(rec.data)
                parsed == parseRecordDataStructured(rec)
                rendered == [base EXCEPT !.data.hex = Some(toHex(dataArray)),
                                         !.data.ascii = Some(toAscii(dataArray))]
            IN  IF parsed.threw
                THEN [rendered EXCEPT !.parsing_error = Some(parsed.error)]
                ELSE [rendered EXCEPT !.data.parsed_content = parsed.value]
        ELSE base

\* parseMimeRecord(record, decoder), lines 842-858: the content it prints for
\* a payload that is not empty.
parseMimeRecordContent(rec) ==
    LET mimeType == OrElse(rec.mediaType, "unknown")
        content == TextDecode(rec.data.bytes)
    IN  IF IncludesJson(mimeType) /\ IsSome(JsonParse(content))
        THEN JsonStringify(Val(JsonParse(content)), 0)
        ELSE content

\* formatRawData(data), lines 983-1012; data is None when absent.
formatRawData(data) ==
    IF ~IsSome(data) \/ Val(data).kind = "null"
    THEN <<78, 111, 32, 100, 97, 116, 97, 32, 97, 118, 97, 105, 108, 97, 98, 108, 101>>  \* 'No data available'
    ELSE IF byteLength(Val(data)) = 0
    THEN <<69, 109, 112, 116, 121>>  \* 'Empty'
    ELSE LET dataArray == ArrayFrom(Val(data)) IN
         <<72, 101, 120, 58, 32>> \o toHex(dataArray)  \* 'Hex: '
         \o <<10>> \o <<65, 83, 67, 73, 73, 58, 32>> \o toAscii(dataArray)  \* 'ASCII: '

(***************************************************************************)
(* Textual decoder (parseRecordData and its helpers).  Its result is a     *)
(* text of lines '- <label>: <value>'; a line is [label, value], the value *)
(* being what is interpolated.                                             *)
(***************************************************************************)
Line(label, value) == [label |-> label, value |-> value]

DataSliceNotAFunction == "data.slice is not a function"
ByteLengthOfNull == "Cannot read properties of null (reading 'byteLength')"
NotDecodeOptions ==
    "Failed to execute 'decode' on 'TextDecoder': The provided value is not of type 'TextDecodeOptions'."

\* decoder.decode(bytes, options): the second parameter is a dictionary
\* (TextDecodeOptions), and the conversion of a string to a dictionary
\* throws a TypeError before anything is decoded.  options is None when
\* the argument is left out, Some(string) when a string is passed.
DecodeWithOptions(bytes, options) ==
    IF IsSome(options) THEN Throw(NotDecodeOptions) ELSE Return(TextDecode(bytes))

\* parseTextRecord(record, decoder), lines 791-806.
parseTextRecord(rec) ==
    LET data == rec.data IN
    IF data.kind = "null" THEN Throw(ByteLengthOfNull)
    ELSE IF byteLength(data) = 0 THEN Return(<<Line("Content", "Empty text record")>>)
    ELSE LET statusByte == ByteAt0(data)
             languageCodeLength == AndLowBits(statusByte, 64)
             encoding == IF Bit7(statusByte) THEN "UTF-16" ELSE "UTF-8"
         IN  IF data.kind # "Uint8Array" THEN Throw(DataSliceNotAFunction)
             ELSE LET languageCode ==
                          TextDecode(Slice(data.bytes, 1, 1 + languageCodeLength))
                      text == DecodeWithOptions(
                                  Slice(data.bytes, 1 + languageCodeLength, Len(data.bytes)),
                                  Some(encoding))
                  IN  IF text.threw THEN Throw(text.error)
                      ELSE Return(<<Line("Language", languageCode),
                                    Line("Encoding", encoding),
                                    Line("Text", text.value)>>)

\* parseUrlRecord(record, decoder), lines 808-832.
parseUrlRecord(rec) ==
    LET data == rec.data IN
    IF data.kind = "null" THEN Throw(ByteLengthOfNull)
    ELSE IF byteLength(data) = 0 THEN Return(<<Line("Content", "Empty URL record")>>)
    ELSE LET prefixCode == ByteAt0(data)
             prefix == UrlPrefix(prefixCode)
         IN  IF data.kind # "Uint8Array" THEN Throw(DataSliceNotAFunction)
             ELSE LET url == TextDecode(Slice(data.bytes, 1, Len(data.bytes)))
                  IN  Return(<<Line("URL", prefix \o url), Line("Prefix Code", prefixCode)>>)

\* parseRecordData(record), lines 736-789, for a text or url record: the
\* lines of the helper, or those of the catch of lines 783-786.
parseRecordData(rec) ==
    LET r == IF rec.recordType = "text" THEN parseTextRecord(rec) ELSE parseUrlRecord(rec)
    IN  IF r.threw
        THEN <<Line("Error parsing record", r.error),
               Line("Raw Data",
                    formatRawData(IF rec.data.kind = "null" THEN None ELSE Some(rec.data)))>>
        ELSE r.value

(***************************************************************************)
(* Tag technical inspector.                                                *)
(***************************************************************************)
\* technologies.join(', ')
RECURSIVE JoinStr(_, _)
JoinStr(parts, sep) ==
    IF parts = <<>> THEN ""
    ELSE IF Len(parts) = 1 THEN parts[1]
    ELSE parts[1] \o sep \o JoinStr(Tail(parts), sep)

\* new Set(technologies).has(name)
Has(technologies, name) == \E i \in 1..Len(technologies) : technologies[i] = name

\* A classification that tests NfcA before NfcA with NdefFormatable.
determineTagTypeNfcAFirst(technologies) ==
    IF Has(technologies, "MifareClassic") THEN "ISO 14443-3A - Mifare Classic"
    ELSE IF Has(technologies, "MifareUltralight") THEN "ISO 14443-3A - Mifare Ultralight"
    ELSE IF Has(technologies, "NfcA") THEN "ISO 14443-3A"
    ELSE IF Has(technologies, "NfcA") /\ Has(technologies, "NdefFormatable")
        THEN "ISO 14443-3A - NDEF Formatable"
    ELSE IF Has(technologies, "NfcB") THEN "ISO 14443-3B"
    ELSE IF Has(technologies, "NfcF") THEN "ISO 18092 - FeliCa"
    ELSE IF Has(technologies, "NfcV") THEN "ISO 15693 - I-CODE"
    ELSE IF Has(technologies, "IsoDep") THEN "ISO 14443-4 - ISO-DEP"
    ELSE IF Has(technologies, "Ndef") THEN "NDEF Tag"
    ELSE IF Has(technologies, "NdefFormatable") THEN "NDEF Formatable Tag"
    ELSE "Unknown (" \o JoinStr(technologies, ", ") \o ")"

\* determineTagType(technologies), lines 664-691.
determineTagType(technologies) ==
    IF Has(technologies, "MifareClassic") THEN "ISO 14443-3A - Mifare Classic"
    ELSE IF Has(technologies, "MifareUltralight") THEN "ISO 14443-3A - Mifare Ultralight"
    ELSE IF Has(technologies, "NfcA") /\ Has(technologies, "NdefFormatable")
        THEN "ISO 14443-3A - NDEF Formatable"
    ELSE IF Has(technologies, "NfcA") THEN "ISO 14443-3A"
    ELSE IF Has(technologies, "NfcB") THEN "ISO 14443-3B"
    ELSE IF Has(technologies, "NfcF") THEN "ISO 18092 - FeliCa"
    ELSE IF Has(technologies, "NfcV") THEN "ISO 15693 - I-CODE"
    ELSE IF Has(technologies, "IsoDep") THEN "ISO 14443-4 - ISO-DEP"
    ELSE IF Has(technologies, "Ndef") THEN "NDEF Tag"
    ELSE IF Has(technologies, "NdefFormatable") THEN "NDEF Formatable Tag"
    ELSE "Unknown (" \o JoinStr(technologies, ", ") \o ")"

\* getMifareClassicSectorInfo(maxSize), lines 718-734.
getMifareClassicSectorInfo(maxSize) ==
    LET totalBlocks == maxSize \div 16 IN
    IF totalBlocks <= 16
    THEN ToString(totalBlocks) \o " sectors of 4 blocks (16 bytes each)"
    ELSE IF totalBlocks <= 40
    THEN "32 sectors of 4 blocks and 8 sectors of 16 blocks (16 bytes each)"
    ELSE ToString(totalBlocks) \o " blocks (16 bytes each)"

\* if (tag.maxSize): undefined and 0 are both falsy.
Truthy(n) == IsSome(n) /\ Val(n) # 0

\* getMemoryInfo(tag), lines 693-716: None is null.
getMemoryInfo(t) ==
    LET techs == IF IsSome(t.tech) THEN Val(t.tech) ELSE <<>> IN
    IF Has(techs, "MifareClassic") THEN
        IF Truthy(t.maxSize)
        THEN Some(ToString(Val(t.maxSize) \div 1024) \o " kBytes: "
                  \o getMifareClassicSectorInfo(Val(t.maxSize)))
        ELSE Some("Mifare Classic (size unknown)")
    ELSE IF Has(techs, "MifareUltralight") THEN Some("Mifare Ultralight (512 bytes)")
    ELSE IF Truthy(t.maxSize)
    THEN Some(ToString(Val(t.maxSize) \div 1024) \o " kBytes ("
              \o ToString(Val(t.maxSize)) \o " bytes)")
    ELSE None

\* n.toString(16) of a natural number, as a string.
RECURSIVE HexStr(_)
HexStr(n) ==
    IF n < 16 THEN SubSeq("0123456789abcdef", n + 1, n + 1)
    ELSE HexStr(n \div 16) \o SubSeq("0123456789abcdef", (n % 16) + 1, (n % 16) + 1)

\* s.padStart(width, '0')
RECURSIVE PadStart0(_, _)
PadStart0(s, width) == IF Len(s) >= width THEN s ELSE PadStart0("0" \o s, width)

(***************************************************************************)
(* Report builder.                                                         *)
(***************************************************************************)
EmptyTechnical ==
    [detected |-> TRUE, type |-> "Unknown", technologies |-> <<>>,
     memory_info |-> None, serial_number |-> None, atqa |-> None, sak |-> None,
     max_size |-> None, is_writable |-> None, can_make_readonly |-> None]

\* The technical fields with tests of truthiness (if (tag.atqa), ...) in
\* place of the comparisons with undefined: a reported 0 or false is
\* left out.
TagTechnicalIfTruthy(event) ==
    LET withSerial == IF IsSome(event.serialNumber) /\ Val(event.serialNumber) # ""
                      THEN [EmptyTechnical EXCEPT !.serial_number = event.serialNumber]
                      ELSE EmptyTechnical
    IN  IF ~IsSome(event.tag) THEN withSerial
        ELSE LET t == Val(event.tag) IN
             [withSerial EXCEPT
                 !.technologies = IF IsSome(t.tech) THEN Val(t.tech) ELSE <<>>,
                 !.type = IF IsSome(t.tech) THEN determineTagType(Val(t.tech)) ELSE "Unknown",
                 !.atqa = IF Truthy(t.atqa)
                          THEN Some("0x" \o PadStart0(HexStr(Val(t.atqa)), 4)) ELSE None,
                 !.sak = IF Truthy(t.sak)
                         THEN Some("0x" \o PadStart0(HexStr(Val(t.sak)), 2)) ELSE None,
                 !.max_size = IF Truthy(t.maxSize) THEN t.maxSize ELSE None,
                 !.memory_info = IF Truthy(t.maxSize) THEN getMemoryInfo(t) ELSE None,
                 !.is_writable = IF t.isWritable = Some(TRUE) THEN t.isWritable ELSE None,
                 !.can_make_readonly = IF t.canMakeReadOnly = Some(TRUE)
                                       THEN t.canMakeReadOnly ELSE None]

\* Lines 386-423 of createStructuredTagData: the technical fields.  A
\* serial number is a string here, which formatSerialNumber returns as is.
TagTechnical(event) ==
    LET withSerial == IF IsSome(event.serialNumber) /\ Val(event.serialNumber) # ""
                      THEN [EmptyTechnical EXCEPT !.serial_number = event.serialNumber]
                      ELSE EmptyTechnical
    IN  IF ~IsSome(event.tag) THEN withSerial
        ELSE LET t == Val(event.tag) IN
             [withSerial EXCEPT
                 !.technologies = IF IsSome(t.tech) THEN Val(t.tech) ELSE <<>>,
                 !.type = IF IsSome(t.tech) THEN determineTagType(Val(t.tech)) ELSE "Unknown",
                 !.atqa = IF IsSome(t.atqa)
                          THEN Some("0x" \o PadStart0(HexStr(Val(t.atqa)), 4)) ELSE None,
                 !.sak = IF IsSome(t.sak)
                         THEN Some("0x" \o PadStart0(HexStr(Val(t.sak)), 2)) ELSE None,
                 !.max_size = t.maxSize,
                 !.memory_info = IF IsSome(t.maxSize) THEN getMemoryInfo(t) ELSE None,
                 !.is_writable = t.isWritable,
                 !.can_make_readonly = t.canMakeReadOnly]

\* Whether decoding the payload of a raw record fails.
DecodingFails(rec) ==
    HasPayload(rec) /\ LET r == createStructuredRecord(rec, 0) IN
                       \/ IsSome(r.parsing_error)
                       \/ IsSome(r.data.parsed_content) /\ IsSome(Val(r.data.parsed_content).error)

\* A map that stops at the first record whose decoding fails.
RECURSIVE StructuredRecordsUntilFailure(_)
StructuredRecordsUntilFailure(records) ==
    IF records = <<>> \/ DecodingFails(records[1]) THEN <<>>
    ELSE <<createStructuredRecord(records[1], 0)>>
         \o [i \in 1..Len(StructuredRecordsUntilFailure(Tail(records))) |->
               [StructuredRecordsUntilFailure(Tail(records))[i] EXCEPT !.index = i]]

\* A map that numbers the records from 1.
StructuredRecordsFromOne(records) ==
    [i \in 1..Len(records) |-> createStructuredRecord(records[i], i)]

\* recordsArray.map((record, index) => this.createStructuredRecord(record,
\* index)), lines 427-430.
StructuredRecords(records) ==
    [i \in 1..Len(records) |-> createStructuredRecord(records[i], i - 1)]

\* createStructuredTagData(event, records), lines 355-434, for records an
\* array.  The time stamps of scan_info and the key lists of raw_data are
\* values of the environment and are left out.
createStructuredTagData(event, records) ==
    [scan_info |-> [scanner_version |-> "1.0.0"],
     tag_technical |-> TagTechnical(event),
     ndef_message |->
        [has_message |-> IsSome(event.message),
         record_count |-> Len(records),
         records |-> IF Len(records) > 0 THEN StructuredRecords(records) ELSE <<>>]]

(***************************************************************************)
(* CSV export.  A row 'field,value' is [field, value, quoted]: value is    *)
(* the text after the comma, or quoted is Some(text between the quotes)    *)
(* when the value is a quoted text computed from payload bytes.            *)
(***************************************************************************)
Row(field, value) == [field |-> field, value |-> value, quoted |-> None]
QuotedRow(field, text) == [field |-> field, value |-> "", quoted |-> Some(text)]

\* `${b}` of a boolean.
BoolStr(b) == IF b THEN "true" ELSE "false"

\* The rows of record number n (from 1), lines 1127-1136.
RecordRows(rec, n) ==
    LET label == "Record " \o ToString(n) IN
    << Row(label \o " Type", rec.record_type),
       Row(label \o " TNF", ToString(rec.tnf)),
       Row(label \o " Data Length", ToString(rec.data.byte_length)),
       QuotedRow(label \o " Hex Data", IF IsSome(rec.data.hex) THEN Val(rec.data.hex) ELSE <<>>),
       QuotedRow(label \o " ASCII Data",
                 IF IsSome(rec.data.ascii) THEN Val(rec.data.ascii) ELSE <<>>) >>
    \o (IF /\ IsSome(rec.data.parsed_content)
            /\ IsSome(Val(rec.data.parsed_content).content)
            /\ Val(Val(rec.data.parsed_content).content) # <<>>
        THEN <<QuotedRow(label \o " Content", Val(Val(rec.data.parsed_content).content))>>
        ELSE <<>>)

RECURSIVE AllRecordRows(_, _)
AllRecordRows(records, n) ==
    IF n > Len(records) THEN <<>>
    ELSE RecordRows(records[n], n) \o AllRecordRows(records, n + 1)

\* downloadCSV(data, filename), lines 1104-1137: the rows after the header
\* and the time stamps.  x || 'N/A' gives 'N/A' for null, '', 0 and false.
downloadCSV(data) ==
    LET t == data.tag_technical IN
    << Row("Scanner Version", data.scan_info.scanner_version),
       Row("Tag Detected", BoolStr(t.detected)),
       Row("Tag Type", t.type),
       Row("Technologies", "\"" \o JoinStr(t.technologies, ", ") \o "\""),
       Row("Serial Number", OrElse(t.serial_number, "N/A")),
       Row("ATQA", OrElse(t.atqa, "N/A")),
       Row("SAK", OrElse(t.sak, "N/A")),
       Row("Max Size", IF IsSome(t.max_size) /\ Val(t.max_size) # 0
                       THEN ToString(Val(t.max_size)) ELSE "N/A"),
       Row("Is Writable", IF IsSome(t.is_writable) /\ Val(t.is_writable)
                          THEN "true" ELSE "N/A"),
       Row("Can Make Read-Only", IF IsSome(t.can_make_readonly) /\ Val(t.can_make_readonly)
                                 THEN "true" ELSE "N/A"),
       Row("Has NDEF Message", BoolStr(data.ndef_message.has_message)),
       Row("Record Count", ToString(data.ndef_message.record_count)) >>
    \o AllRecordRows(data.ndef_message.records, 1)

(***************************************************************************)
(* Scanner handlers, as functions of the fields of the NFCScanner instance *)
(* they read and write: s = [isScanning, reader, lastTagData,              *)
(* statusIndicator, errorMessage, resultsShown, timers].                   *)
(***************************************************************************)
\* updateUI(status, text)
updateUI(s, status) == [s EXCEPT !.statusIndicator = status]

\* showError(message)
showError(s, message) == [s EXCEPT !.errorMessage = Some(message)]

\* hideError()
hideError(s) == [s EXCEPT !.errorMessage = None]

\* displayResults(formatTechnicalDisplay(tagData)): the display is a
\* function of the report, which stands for it.
displayResults(s, tagData) == [s EXCEPT !.resultsShown = Some(tagData)]

\* A stopScanning that resets the two fields and leaves the status
\* indicator as it is.
stopScanningKeepingStatus(s) == [s EXCEPT !.isScanning = FALSE, !.reader = None]

\* stopScanning(), lines 276-285.
stopScanning(s) ==
    [updateUI(s, "ready") EXCEPT !.isScanning = FALSE, !.reader = None]

ProcessingError == "Error processing NFC tag data: "

\* A handler that checks the message only: a missing or malformed record
\* collection is read as no records.
handleNFCReadingUnchecked(s, event) ==
    IF ~IsSome(event.message)
    THEN showError(s, ProcessingError \o "This NFC tag appears to be empty or unformatted.")
    ELSE LET tagData == createStructuredTagData(event, Val(event.message).records.items)
             stored == [s EXCEPT !.lastTagData = Some(tagData)]
             shown == updateUI(displayResults(stored, tagData), "ready")
         IN  [shown EXCEPT !.timers = s.timers + 1]

\* A handler that adds the records of the event to those of the report it
\* already holds.
handleNFCReadingAppending(s, event) ==
    IF ~IsSome(event.message)
    THEN showError(s, ProcessingError \o "This NFC tag appears to be empty or unformatted.")
    ELSE LET records == Val(event.message).records IN
         IF records.kind = "absent"
         THEN showError(s, ProcessingError \o "No readable data found on this NFC tag.")
         ELSE IF records.kind = "notIterable"
         THEN showError(s, ProcessingError \o "Invalid data format on this NFC tag.")
         ELSE LET built == createStructuredTagData(event, records.items)
                  tagData == IF IsSome(s.lastTagData)
                             THEN [built EXCEPT !.ndef_message.records =
                                     Val(s.lastTagData).ndef_message.records \o @]
                             ELSE built
                  stored == [s EXCEPT !.lastTagData = Some(tagData)]
                  shown == updateUI(displayResults(stored, tagData), "ready")
              IN  [shown EXCEPT !.timers = s.timers + 1]

\* handleNFCReading(event), lines 287-353.  event.message is None or
\* Some([records |-> [kind, items]]) with kind "absent" (no records
\* property), "notIterable" (neither an array nor iterable) or "array".
handleNFCReading(s, event) ==
    IF ~IsSome(event.message)
    THEN showError(s, ProcessingError \o "This NFC tag appears to be empty or unformatted.")
    ELSE LET records == Val(event.message).records IN
         IF records.kind = "absent"
         THEN showError(s, ProcessingError \o "No readable data found on this NFC tag.")
         ELSE IF records.kind = "notIterable"
         THEN showError(s, ProcessingError \o "Invalid data format on this NFC tag.")
         ELSE LET tagData == createStructuredTagData(event, records.items)
                  stored == [s EXCEPT !.lastTagData = Some(tagData)]
                  shown == updateUI(displayResults(stored, tagData), "ready")
              IN  [shown EXCEPT !.timers = s.timers + 1]

\* handleNFCError(event), lines 1014-1019: a 'readingerror' event carries
\* no message.
handleNFCError(s) ==
    stopScanning(updateUI(showError(s, "Error reading NFC tag: undefined"), "error"))

\* handleScanError(error), lines 1021-1036.
handleScanError(s, error) ==
    LET message ==
            "Failed to start NFC scanning: " \o
            (IF error.name = "NotAllowedError"
             THEN "Permission denied. Please allow NFC access and try again."
             ELSE IF error.name = "NotSupportedError"
             THEN "NFC is not supported on this device."
             ELSE IF error.name = "NotReadableError"
             THEN "NFC reader is not available or already in use."
             ELSE error.message)
    IN  updateUI(showError(s, message), "error")

\* clearResults(), lines 1049-1053.
clearResults(s) == updateUI([s EXCEPT !.resultsShown = None], "ready")

\* exportData(format), lines 1065-1086: without a current report it alerts
\* and returns; with one it hands this.lastTagData to the download or the
\* clipboard of the format.
exportData(s, format) ==
    IF ~IsSome(s.lastTagData)
    THEN [alerted |-> TRUE, format |-> format, data |-> None]
    ELSE [alerted |-> ~(format \in {"json", "csv", "raw"}), format |-> format,
          data |-> IF format \in {"json", "csv", "raw"} THEN s.lastTagData ELSE None]

\* The handler applied once per registered listener.
RECURSIVE Repeat(_, _, _)
Repeat(s, event, n) ==
    IF n = 0 THEN s ELSE Repeat(handleNFCReading(s, event), event, n - 1)

(***************************************************************************)
(* Inputs.                                                                 *)
(***************************************************************************)
Data(kind, bytes) == [kind |-> kind, bytes |-> bytes]
NoData == Data("null", <<>>)
DataKinds == {"Uint8Array", "DataView"}

RawRecord(recordType, mediaType, data) ==
    [recordType |-> recordType, mediaType |-> mediaType, id |-> None, tnf |-> None,
     data |-> data]

\* First bytes: every prefix code of the table and the first one outside
\* it, language lengths 0..36 and 63, and status bytes with bit 6 (65),
\* bit 7 (128, 130), both (194) and all bits (255) set.
HeadBytes == (0..36) \cup {63, 65, 128, 130, 194, 255}

\* Following bytes: 'H', 'i', and the two bytes of U+00E9, each of which is
\* malformed on its own.
BodyBytes == {72, 105, 195, 169}

Bodies == UNION {[1..n -> BodyBytes] : n \in 0..MaxBody}

ScenarioA == <<2, 101, 110, 72, 105>>                                 \* 02 'en' 'Hi'
ScenarioB == <<1, 103, 111, 111, 103, 108, 101, 46, 99, 111, 109>>    \* 01 'google.com'
ScenarioC == <<123, 34, 97, 34, 58, 49, 125>>                         \* '{"a":1}'

Payloads == {<<h>> \o b : h \in HeadBytes, b \in Bodies} \cup {ScenarioA, ScenarioB}

\* Payloads of mime records: JSON texts and texts that are not JSON.
MimePayloads ==
    {ScenarioC,
     <<49>>,                              \* '1'
     <<91, 49, 44, 32, 48, 93>>,          \* '[1, 0]'
     <<123, 125>>,                        \* '{}'
     <<123, 34, 97, 34>>,                 \* '{"a"' is not JSON
     <<72, 105>>,                         \* 'Hi' is not JSON
     <<48, 49>>}                          \* '01' is not JSON

MediaTypes == {None, Some("application/json"), Some("text/plain")}

OtherTypes == {"empty", "smart-poster", "absolute-uri", "external", "unknown"}

Records ==
    {RawRecord(t, None, Data(k, p)) : t \in {"text", "url"}, k \in DataKinds,
                                      p \in Payloads \cup {<<>>}}
    \cup {RawRecord("mime", m, Data(k, p)) : m \in MediaTypes, k \in DataKinds,
                                             p \in MimePayloads \cup {<<>>}}
    \cup {RawRecord(t, None, Data(k, p)) : t \in OtherTypes, k \in DataKinds,
                                           p \in {<<>>, <<72, 105>>, <<255>>}}
    \cup {RawRecord(t, None, NoData) : t \in {"text", "url", "mime"} \cup OtherTypes}

TechNames == {"MifareClassic", "MifareUltralight", "NfcA", "NdefFormatable", "NfcB",
              "NfcF", "NfcV", "IsoDep", "Ndef", "NfcBarcode"}

TechLists == UNION {[1..n -> TechNames] : n \in 0..MaxTech}

\* Sizes in bytes around the thresholds of the memory description.
MaxSizes == {0, 1, 15, 16, 256, 271, 272, 640, 655, 656, 1023, 1024, 4096}

TagMeta(tech, maxSize) ==
    [tech |-> tech, atqa |-> None, sak |-> None, maxSize |-> maxSize,
     isWritable |-> None, canMakeReadOnly |-> None]

Tags == {TagMeta(tech, size) : tech \in {None} \cup {Some(l) : l \in TechLists},
                               size \in {None} \cup {Some(n) : n \in MaxSizes}}

\* Tags of the reading events given to the scanner.
SampleTags ==
    {None,
     Some([tech |-> Some(<<"NfcA", "MifareClassic">>), atqa |-> Some(4), sak |-> Some(8),
           maxSize |-> Some(1024), isWritable |-> Some(FALSE),
           canMakeReadOnly |-> Some(FALSE)])}

\* Record arrays of the messages: none, one, and two of which the first
\* does not decode.
SampleMessages ==
    LET a == RawRecord("text", None, Data("Uint8Array", ScenarioA))
        b == RawRecord("url", None, Data("DataView", ScenarioB))
    IN  {<<>>, <<a>>, <<b, a>>}

Messages ==
    {None, Some([records |-> [kind |-> "absent", items |-> <<>>]]),
     Some([records |-> [kind |-> "notIterable", items |-> <<>>]])}
    \cup {Some([records |-> [kind |-> "array", items |-> items]]) : items \in SampleMessages}

ReadingEventOf(t, m) ==
    [serialNumber |-> IF IsSome(t) THEN Some("04:a1:b2:c3") ELSE None,
     tag |-> t, message |-> m]

\* The events of a reading: every message on an event without tag details,
\* and the message of two records on an event that has them.
Events ==
    {ReadingEventOf(None, m) : m \in Messages}
    \cup {ReadingEventOf(t, m) :
            t \in SampleTags \ {None},
            m \in {n \in Messages : IsSome(n) /\ Len(Val(n).records.items) = 2}}

\* The records of the message of an event that passed the presence checks.
ItemsOfMessage(e) == Val(e.message).records.items

\* Tag details for the report builder: each optional field absent or
\* present, the numbers with 0 and the booleans with false among the
\* values.
ReportTechs == {None, Some(<<>>), Some(<<"MifareClassic">>), Some(<<"MifareUltralight">>),
                Some(<<"NfcA", "Ndef">>)}

ReportTags ==
    {None} \cup
    {Some([tech |-> tech, atqa |-> atqa, sak |-> sak, maxSize |-> maxSize,
           isWritable |-> w, canMakeReadOnly |-> r]) :
        tech \in ReportTechs,
        atqa \in {None, Some(0), Some(836)},
        sak \in {None, Some(0), Some(8)},
        maxSize \in {None, Some(0), Some(1024)},
        w \in {None, Some(TRUE), Some(FALSE)},
        r \in {None, Some(TRUE), Some(FALSE)}}

\* Reading events for the report builder: with and without a serial
\* number, and a message of no, one or two records.
ReportEvents ==
    {[serialNumber |-> sn, tag |-> t,
      message |-> Some([records |-> [kind |-> "array", items |-> items]])] :
        sn \in {None, Some("04:a1:b2:c3")}, t \in ReportTags, items \in SampleMessages}

\* Rejections of scan(): a named error and one handleScanError does not name.
ScanErrors == {[name |-> "NotAllowedError", message |-> "denied"],
               [name |-> "AbortError", message |-> "aborted"]}

ReaderIds == 1..MaxReaders

\* The format of an export: every format reads the same this.lastTagData,
\* and what downloadCSV makes of it is checked on the report builder.
ExportFormats == {"csv"}

(***************************************************************************)
(* The scanner: the NFCScanner instance, the NDEFReader objects it made,   *)
(* their pending scan() promises and listeners, and the pending timers.    *)
(***************************************************************************)
Scanner ==
    [isScanning |-> isScanning, reader |-> reader, lastTagData |-> lastTagData,
     statusIndicator |-> statusIndicator, errorMessage |-> errorMessage,
     resultsShown |-> resultsShown, timers |-> timers]

Becomes(s) ==
    /\ isScanning' = s.isScanning
    /\ reader' = s.reader
    /\ lastTagData' = s.lastTagData
    /\ statusIndicator' = s.statusIndicator
    /\ errorMessage' = s.errorMessage
    /\ resultsShown' = s.resultsShown
    /\ timers' = s.timers

readerVars == <<scanPromises, activeReaders, readingListeners, errorListeners, readersCreated>>

\* constructor(), lines 208-218, on a device that has NDEFReader.
ScannerInit ==
    /\ isScanning = FALSE
    /\ reader = None
    /\ lastTagData = None
    /\ statusIndicator = "initial"
    /\ errorMessage = None
    /\ resultsShown = None
    /\ timers = 0
    /\ scanPromises = {}
    /\ activeReaders = {}
    /\ readingListeners = [r \in ReaderIds |-> 0]
    /\ errorListeners = [r \in ReaderIds |-> 0]
    /\ readersCreated = 0
    /\ dispatched = None
    /\ exported = None
    /\ staleTimers = 0

\* A click on the scan button while scanning: toggleScanning calls
\* stopScanning, lines 246-247.
ClickStop ==
    /\ isScanning
    /\ Becomes(stopScanning(Scanner))
    /\ UNCHANGED <<readerVars, decoderVars, tagVars, reportVars>>
    /\ dispatched' = None
    /\ exported' = None
    /\ UNCHANGED staleTimers

\* A click on the scan button while not scanning: startScanning up to its
\* await, lines 248-258.
ClickStart ==
    /\ ~isScanning
    /\ readersCreated < MaxReaders
    /\ readersCreated' = readersCreated + 1
    /\ reader' = Some(readersCreated + 1)
    /\ scanPromises' = scanPromises \cup {readersCreated + 1}
    /\ UNCHANGED <<isScanning, lastTagData, statusIndicator, errorMessage, resultsShown,
                   timers, activeReaders, readingListeners, errorListeners,
                   decoderVars, tagVars, reportVars>>
    /\ dispatched' = None
    /\ exported' = None
    /\ staleTimers' = timers

\* The scan() promise of reader r resolves: startScanning after its await,
\* lines 260-268.  this.reader is read again here; when it is null,
\* addEventListener throws a TypeError, which the catch of line 270 hands
\* to handleScanError.
ScanResolved(r) ==
    /\ r \in scanPromises
    /\ scanPromises' = scanPromises \ {r}
    /\ activeReaders' = activeReaders \cup {r}
    /\ LET s == hideError(updateUI([Scanner EXCEPT !.isScanning = TRUE], "scanning")) IN
       IF IsSome(s.reader)
       THEN /\ Becomes(s)
            /\ readingListeners' =
                 [readingListeners EXCEPT ![Val(s.reader)] = @ + 1]
            /\ errorListeners' = [errorListeners EXCEPT ![Val(s.reader)] = @ + 1]
       ELSE /\ Becomes(handleScanError(s,
                 [name |-> "TypeError",
                  message |-> "Cannot read properties of null (reading 'addEventListener')"]))
            /\ UNCHANGED <<readingListeners, errorListeners>>
    /\ UNCHANGED <<readersCreated, decoderVars, tagVars, reportVars>>
    /\ dispatched' = None
    /\ exported' = None
    /\ UNCHANGED staleTimers

\* The scan() promise of reader r rejects: the catch of lines 270-273.
ScanRejected(r, error) ==
    /\ r \in scanPromises
    /\ scanPromises' = scanPromises \ {r}
    /\ Becomes(handleScanError(Scanner, error))
    /\ UNCHANGED <<activeReaders, readingListeners, errorListeners, readersCreated,
                   decoderVars, tagVars, reportVars>>
    /\ dispatched' = None
    /\ exported' = None
    /\ UNCHANGED staleTimers

\* Reader r, whose scan is active, dispatches a 'reading' event: every
\* listener registered on it runs handleNFCReading, line 267.
ReadingEvent(r, event) ==
    /\ r \in activeReaders
    /\ readingListeners[r] > 0
    /\ dispatched' = Some(event)
    /\ exported' = None
    /\ UNCHANGED <<readerVars, decoderVars, tagVars, reportVars>>
    /\ \E s \in {Repeat(Scanner, event, readingListeners[r])} :
       /\ s.timers <= MaxTimers
       /\ Becomes(s)
       /\ UNCHANGED staleTimers

\* Reader r dispatches a 'readingerror' event: every listener registered
\* on it runs handleNFCError, line 268 (running it twice gives the same).
ReadingErrorEvent(r) ==
    /\ r \in activeReaders
    /\ errorListeners[r] > 0
    /\ Becomes(handleNFCError(Scanner))
    /\ UNCHANGED <<readerVars, decoderVars, tagVars, reportVars>>
    /\ dispatched' = None
    /\ exported' = None
    /\ UNCHANGED staleTimers

\* An auto-stop timer fires, lines 323-325.  The timers all wait 2000 ms,
\* so they fire in the order in which they were set: those set before the
\* latest startScanning fire first.
TimerFires ==
    /\ timers > 0
    /\ Becomes([stopScanning(Scanner) EXCEPT !.timers = timers - 1])
    /\ UNCHANGED <<readerVars, decoderVars, tagVars, reportVars>>
    /\ dispatched' = None
    /\ exported' = None
    /\ staleTimers' = IF staleTimers > 0 THEN staleTimers - 1 ELSE 0

\* The Escape key while scanning, lines 1224-1228.
EscapeKey ==
    /\ isScanning
    /\ Becomes(stopScanning(Scanner))
    /\ UNCHANGED <<readerVars, decoderVars, tagVars, reportVars>>
    /\ dispatched' = None
    /\ exported' = None
    /\ UNCHANGED staleTimers

\* A click on the clear button, line 233.
ClickClear ==
    /\ Becomes(clearResults(Scanner))
    /\ UNCHANGED <<readerVars, decoderVars, tagVars, reportVars>>
    /\ dispatched' = None
    /\ exported' = None
    /\ UNCHANGED staleTimers

\* A call of exportData: a click on an export button of the results
\* display, lines 538-540, or a script through window.nfcScanner, line 217.
CallExport(format) ==
    /\ exported' = Some(exportData(Scanner, format))
    /\ dispatched' = None
    /\ UNCHANGED <<isScanning, reader, lastTagData, statusIndicator, errorMessage,
                   resultsShown, timers, staleTimers, readerVars, decoderVars, tagVars,
                   reportVars>>

(***************************************************************************)
(* Harnesses of the pure functions: the input is drawn, then the function  *)
(* is applied to it.                                                       *)
(***************************************************************************)
IdleRecord == RawRecord("empty", None, NoData)
IdleTag == TagMeta(None, None)

IdleEvent == [serialNumber |-> None, tag |-> None, message |-> None]
ReportIdle == reportEvent = IdleEvent /\ report = None /\ csv = None
DecoderIdle == record = IdleRecord /\ structuredRecord = None /\ parsedResult = None
               /\ rawText = None /\ textualResult = None
TagIdle == tag = IdleTag /\ tagTypeLabel = None /\ memoryInfo = None

\* The report builder's step for one record, the decoder on its own, the
\* raw rendering of the record's payload (line 785), and the textual
\* decoder on a text or url record.
DecodeRecord ==
    /\ structuredRecord = None
    /\ structuredRecord' = Some(createStructuredRecord(record, 0))
    /\ parsedResult' = Some(parseRecordDataStructured(record))
    /\ rawText' = Some(formatRawData(IF record.data.kind = "null" THEN None ELSE Some(record.data)))
    /\ textualResult' = IF record.recordType \in {"text", "url"}
                        THEN Some(parseRecordData(record)) ELSE None
    /\ UNCHANGED <<record, scannerVars, tagVars, reportVars>>

\* The inspector on one tag: the label of its technologies (of none when
\* it lists none, as getTagTechnicalInfo does at line 621) and its memory.
InspectTag ==
    /\ tagTypeLabel = None
    /\ tagTypeLabel' = Some(determineTagType(IF IsSome(tag.tech) THEN Val(tag.tech) ELSE <<>>))
    /\ memoryInfo' = Some(getMemoryInfo(tag))
    /\ UNCHANGED <<tag, scannerVars, decoderVars, reportVars>>

\* The report builder on one reading event, as handleNFCReading calls it
\* (line 312), and the CSV export of the report.
BuildReport ==
    /\ report = None
    /\ report' = Some(createStructuredTagData(reportEvent, ItemsOfMessage(reportEvent)))
    /\ UNCHANGED <<reportEvent, csv, scannerVars, decoderVars, tagVars>>

ExportCsv ==
    /\ IsSome(report)
    /\ csv = None
    /\ csv' = Some(downloadCSV(Val(report)))
    /\ UNCHANGED <<reportEvent, report, scannerVars, decoderVars, tagVars>>

Init == ScannerInit /\ DecoderIdle /\ TagIdle /\ ReportIdle

Next ==
    \/ ClickStop
    \/ ClickStart
    \/ \E r \in ReaderIds : ScanResolved(r)
    \/ \E r \in ReaderIds, error \in ScanErrors : ScanRejected(r, error)
    \/ \E r \in ReaderIds, event \in Events : ReadingEvent(r, event)
    \/ \E r \in ReaderIds : ReadingErrorEvent(r)
    \/ TimerFires
    \/ EscapeKey
    \/ ClickClear
    \/ \E format \in ExportFormats : CallExport(format)

Spec == Init /\ [][Next]_vars

DecoderInit == ScannerInit /\ TagIdle /\ ReportIdle /\ record \in Records
               /\ structuredRecord = None /\ parsedResult = None /\ rawText = None
               /\ textualResult = None

DecoderNext == DecodeRecord

SpecDecoder == DecoderInit /\ [][DecoderNext]_vars

TagInit == ScannerInit /\ DecoderIdle /\ ReportIdle /\ tag \in Tags
           /\ tagTypeLabel = None /\ memoryInfo = None

TagNext == InspectTag

ReportInit == ScannerInit /\ DecoderIdle /\ TagIdle /\ reportEvent \in ReportEvents
              /\ report = None /\ csv = None

ReportNext == BuildReport \/ ExportCsv

SpecReport == ReportInit /\ [][ReportNext]_vars

SpecTag == TagInit /\ [][TagNext]_vars

(***************************************************************************)
(* Properties.                                                             *)
(***************************************************************************)
\* The outcome of the decoder harness for a record with a payload.
Decoded == IsSome(parsedResult)
ParsedOf(rec) == Val(parsedResult).value

\* C1: a text record with a payload that is not empty decodes to the
\* language held by payload bytes 1..L, L the low six bits of the status
\* byte, to the text held by the bytes after them, and to the encoding
\* label "UTF-16" exactly when bit 7 of the status byte is set.
C1_TextRecordDecoded ==
    (Decoded /\ record.recordType = "text" /\ HasPayload(record)) =>
        LET bytes == record.data.bytes
            L == bytes[1] % 64
            langEnd == Min(1 + L, Len(bytes))
        IN  /\ IsSome(ParsedOf(record))
            /\ Val(ParsedOf(record)).metadata.language
                 = Some(TextDecode(SubSeq(bytes, 2, langEnd)))
            /\ Val(ParsedOf(record)).content
                 = Some(TextDecode(SubSeq(bytes, langEnd + 1, Len(bytes))))
            /\ Val(ParsedOf(record)).metadata.encoding
                 = Some(IF bytes[1] >= 128 THEN "UTF-16" ELSE "UTF-8")

\* The decoding of C1 holds of the payloads that are indexable byte arrays.
TextDecodingOfByteArrays ==
    record.data.kind = "Uint8Array" => C1_TextRecordDecoded

\* C2: a url record with a payload that is not empty decodes to the table
\* entry of its first byte c when c is in 0..35, else to no prefix,
\* followed by the decoding of the other bytes, and records c as
\* prefix_code.
C2_UrlRecordDecoded ==
    (Decoded /\ record.recordType = "url" /\ HasPayload(record)) =>
        LET bytes == record.data.bytes
            c == bytes[1]
            rest == TextDecode(SubSeq(bytes, 2, Len(bytes)))
        IN  /\ IsSome(ParsedOf(record))
            /\ Val(ParsedOf(record)).content
                 = Some((IF c <= 35 THEN urlPrefixes[c + 1] ELSE <<>>) \o rest)
            /\ Val(ParsedOf(record)).metadata.prefix_code = Some(c)

\* The decoding of C2 holds of the payloads that are indexable byte arrays.
UrlDecodingOfByteArrays ==
    record.data.kind = "Uint8Array" => C2_UrlRecordDecoded

\* The classification rules in their order: the technologies a rule needs
\* and its label.
TagTypeRules ==
    << <<{"MifareClassic"}, "ISO 14443-3A - Mifare Classic">>,
       <<{"MifareUltralight"}, "ISO 14443-3A - Mifare Ultralight">>,
       <<{"NfcA", "NdefFormatable"}, "ISO 14443-3A - NDEF Formatable">>,
       <<{"NfcA"}, "ISO 14443-3A">>,
       <<{"NfcB"}, "ISO 14443-3B">>,
       <<{"NfcF"}, "ISO 18092 - FeliCa">>,
       <<{"NfcV"}, "ISO 15693 - I-CODE">>,
       <<{"IsoDep"}, "ISO 14443-4 - ISO-DEP">>,
       <<{"Ndef"}, "NDEF Tag">>,
       <<{"NdefFormatable"}, "NDEF Formatable Tag">> >>

Inspected == IsSome(tagTypeLabel)
TechOf(t) == IF IsSome(t.tech) THEN Val(t.tech) ELSE <<>>
TechSetOf(t) == {TechOf(t)[i] : i \in 1..Len(TechOf(t))}
Matching(t) == {k \in 1..Len(TagTypeRules) : TagTypeRules[k][1] \subseteq TechSetOf(t)}

\* C3: the label of a technology list is the label of the first rule, in
\* the fixed order, whose technologies are all in the list, and "Unknown
\* (<the list joined by ', '>)" when no rule matches; so a list with
\* MifareClassic is always "ISO 14443-3A - Mifare Classic", and a list with
\* NdefFormatable that matches no earlier rule is "NDEF Formatable Tag".
C3_FirstMatchingRule ==
    Inspected =>
        /\ Matching(tag) # {} =>
             \E k \in Matching(tag) :
                /\ \A j \in Matching(tag) : k <= j
                /\ Val(tagTypeLabel) = TagTypeRules[k][2]
        /\ Matching(tag) = {} =>
             Val(tagTypeLabel) = "Unknown (" \o JoinStr(TechOf(tag), ", ") \o ")"
        /\ "MifareClassic" \in TechSetOf(tag) =>
             Val(tagTypeLabel) = "ISO 14443-3A - Mifare Classic"
        /\ ("NdefFormatable" \in TechSetOf(tag) /\ Matching(tag) = {10}) =>
             Val(tagTypeLabel) = "NDEF Formatable Tag"

\* C3's case: a list that matches two rules, NfcA with NdefFormatable
\* before NfcA alone, has been labelled.
C3_Witness ==
    /\ Inspected
    /\ TechSetOf(tag) = {"NfcA", "NdefFormatable"}
    /\ Val(tagTypeLabel) = "ISO 14443-3A - NDEF Formatable"

\* C4: for a tag with MifareClassic and a known maxSize, 0 included, the
\* memory description is "<floor(maxSize/1024)> kBytes: " followed, with
\* n = floor(maxSize/16), by "<n> sectors of 4 blocks (16 bytes each)" when
\* n <= 16, by the fixed 32-and-8-sector string when 16 < n <= 40, and by
\* "<n> blocks (16 bytes each)" when n > 40.
C4_MifareClassicMemory ==
    (Inspected /\ "MifareClassic" \in TechSetOf(tag) /\ IsSome(tag.maxSize)) =>
        LET maxSize == Val(tag.maxSize)
            n == maxSize \div 16
            sectors == IF n <= 16 THEN ToString(n) \o " sectors of 4 blocks (16 bytes each)"
                       ELSE IF n <= 40
                       THEN "32 sectors of 4 blocks and 8 sectors of 16 blocks (16 bytes each)"
                       ELSE ToString(n) \o " blocks (16 bytes each)"
        IN  Val(memoryInfo) = Some(ToString(maxSize \div 1024) \o " kBytes: " \o sectors)

\* The description of C4 holds of every known maxSize other than 0.
MifareClassicMemoryOfPositiveSizes ==
    (IsSome(tag.maxSize) /\ Val(tag.maxSize) = 0) \/ C4_MifareClassicMemory

\* C6: the decoder never raises; for a record with a payload that is not
\* empty its parsed content always has a content, and when decoding failed
\* (the parsed content carries an error) the content is the raw hex/ASCII
\* rendering of the payload.
C6_FailureFallsBackToRaw ==
    Decoded =>
        /\ ~Val(parsedResult).threw
        /\ HasPayload(record) =>
             /\ IsSome(ParsedOf(record))
             /\ IsSome(Val(ParsedOf(record)).content)
             /\ IsSome(Val(ParsedOf(record)).error) =>
                  Val(ParsedOf(record)).content = Some(formatRawData(Some(record.data)))

\* The part of C6 that holds: the decoder never raises, and a content is
\* absent only together with an error.
DecoderNeverRaises ==
    Decoded =>
        /\ ~Val(parsedResult).threw
        /\ HasPayload(record) =>
             /\ IsSome(ParsedOf(record))
             /\ IsSome(Val(ParsedOf(record)).content) # IsSome(Val(ParsedOf(record)).error)

LowerHexDigits == <<48, 49, 50, 51, 52, 53, 54, 55, 56, 57, 97, 98, 99, 100, 101, 102>>

\* C9: for a decoded record with a payload that is not empty, hex is
\* byte_length groups of two lowercase digits separated by one space and
\* ascii is byte_length characters, a byte in 32..126 as itself and any
\* other as '.', whether or not structured parsing failed.
C9_RawRenderingsComplete ==
    (IsSome(structuredRecord) /\ HasPayload(record)) =>
        LET rec == Val(structuredRecord)
            bytes == record.data.bytes
            n == rec.data.byte_length
        IN  /\ n = Len(bytes)
            /\ IsSome(rec.data.hex) /\ IsSome(rec.data.ascii)
            /\ Len(Val(rec.data.hex)) = 3 * n - 1
            /\ \A i \in 1..n :
                 /\ Val(rec.data.hex)[3 * i - 2] = LowerHexDigits[(bytes[i] \div 16) + 1]
                 /\ Val(rec.data.hex)[3 * i - 1] = LowerHexDigits[(bytes[i] % 16) + 1]
                 /\ i < n => Val(rec.data.hex)[3 * i] = 32
            /\ Len(Val(rec.data.ascii)) = n
            /\ \A i \in 1..n :
                 Val(rec.data.ascii)[i]
                   = IF 32 <= bytes[i] /\ bytes[i] <= 126 THEN bytes[i] ELSE 46

\* The renderings of C9 are complete for the payloads that are indexable
\* byte arrays.
RawRenderingsOfByteArrays ==
    record.data.kind = "Uint8Array" => C9_RawRenderingsComplete

\* C10: for a mime record whose media type contains "json", the content
\* placed in the report is the 2-space pretty-printed form of the payload
\* when it is JSON, and the decoded text, with no error, when it is not.
C10_JsonPrettyPrinted ==
    (IsSome(structuredRecord) /\ HasPayload(record) /\ record.recordType = "mime"
       /\ IsSome(record.mediaType) /\ IncludesJson(Val(record.mediaType))) =>
        LET rec == Val(structuredRecord)
            text == TextDecode(record.data.bytes)
        IN  /\ rec.parsing_error = None
            /\ IsSome(rec.data.parsed_content)
            /\ Val(rec.data.parsed_content).error = None
            /\ Val(rec.data.parsed_content).content
                 = Some(IF IsSome(JsonParse(text))
                        THEN JsonStringify(Val(JsonParse(text)), 0) ELSE text)

\* What the report holds for a mime record: the decoded text as it is.
MimeContentIsDecodedText ==
    (IsSome(structuredRecord) /\ HasPayload(record) /\ record.recordType = "mime") =>
        /\ Val(structuredRecord).parsing_error = None
        /\ Val(Val(structuredRecord).data.parsed_content).error = None
        /\ Val(Val(structuredRecord).data.parsed_content).content
             = Some(TextDecode(record.data.bytes))

\* The pretty-printed form of Scenario C: '{', newline, two blanks, '"a": 1',
\* newline, '}'.
ScenarioCPretty == <<123, 10, 32, 32, 34, 97, 34, 58, 32, 49, 10, 125>>

\* JSON.parse and JSON.stringify do on the sample payloads what the
\* engine does.
JsonSamplesAsExpected ==
    /\ JsonStringify(Val(JsonParse(ScenarioC)), 0) = ScenarioCPretty
    /\ JsonStringify(Val(JsonParse(<<49>>)), 0) = <<49>>
    /\ JsonStringify(Val(JsonParse(<<91, 49, 44, 32, 48, 93>>)), 0)
         = <<91, 10, 32, 32, 49, 44, 10, 32, 32, 48, 10, 93>>
    /\ JsonStringify(Val(JsonParse(<<123, 125>>)), 0) = <<123, 125>>
    /\ JsonParse(<<123, 34, 97, 34>>) = None
    /\ JsonParse(<<72, 105>>) = None
    /\ JsonParse(<<48, 49>>) = None
    /\ parseMimeRecordContent(RawRecord("mime", Some("application/json"),
                                        Data("Uint8Array", ScenarioC))) = ScenarioCPretty
    /\ parseMimeRecordContent(RawRecord("mime", Some("text/plain"),
                                        Data("Uint8Array", ScenarioC))) = ScenarioC

\* A reading event that has a message whose records are an array.
PassesPresenceChecks(e) == IsSome(e.message) /\ Val(e.message).records.kind = "array"
ItemsOf(e) == Val(e.message).records.items

\* The raw records of the sample messages: the text record decodes, the
\* url record, a DataView, does not.
FailsToDecode(rec) == rec.recordType \in {"text", "url"} /\ rec.data.kind = "DataView"

\* C5: a reading event that passes the presence checks always stores a
\* report holding one decoded record per raw record; a record whose
\* decoding fails carries the failure in parsing_error or in its parsed
\* content's error, and every other record of the message is decoded.
C5_ReportAlwaysStored ==
    (IsSome(dispatched) /\ PassesPresenceChecks(Val(dispatched))) =>
        LET items == ItemsOf(Val(dispatched)) IN
        /\ IsSome(lastTagData)
        /\ resultsShown = lastTagData
        /\ Len(Val(lastTagData).ndef_message.records) = Len(items)
        /\ \A i \in 1..Len(items) :
             LET out == Val(lastTagData).ndef_message.records[i] IN
             IF FailsToDecode(items[i])
             THEN \/ IsSome(out.parsing_error)
                  \/ /\ IsSome(out.data.parsed_content)
                     /\ IsSome(Val(out.data.parsed_content).error)
             ELSE /\ out.parsing_error = None
                  /\ IsSome(out.data.parsed_content)
                  /\ Val(out.data.parsed_content).error = None
                  /\ IsSome(Val(out.data.parsed_content).content)

\* C5's case: the event handled last had a record whose decoding failed,
\* followed by a record that decodes to 'Hi', and the report holds both.
C5_Witness ==
    /\ IsSome(dispatched)
    /\ PassesPresenceChecks(Val(dispatched))
    /\ Len(ItemsOf(Val(dispatched))) = 2
    /\ FailsToDecode(ItemsOf(Val(dispatched))[1])
    /\ IsSome(lastTagData)
    /\ Len(Val(lastTagData).ndef_message.records) = 2
    /\ IsSome(Val(Val(lastTagData).ndef_message.records[1].data.parsed_content).error)
    /\ Val(Val(lastTagData).ndef_message.records[2].data.parsed_content).content
         = Some(<<72, 105>>)

NoMessageText == ProcessingError \o "This NFC tag appears to be empty or unformatted."
NoRecordsText == ProcessingError \o "No readable data found on this NFC tag."
NotIterableText == ProcessingError \o "Invalid data format on this NFC tag."

\* C7: a reading event without a message, without records or with records
\* that are not a sequence produces no report: the current report, the
\* results display and the timers stay as they were, and the error shown
\* is the one of the case, the three being different.
C7_NoReportOnAbsentInput ==
    [][(IsSome(dispatched') /\ ~PassesPresenceChecks(Val(dispatched'))) =>
          LET e == Val(dispatched') IN
          /\ lastTagData' = lastTagData
          /\ resultsShown' = resultsShown
          /\ timers' = timers
          /\ errorMessage' =
               Some(IF ~IsSome(e.message) THEN NoMessageText
                    ELSE IF Val(e.message).records.kind = "absent" THEN NoRecordsText
                    ELSE NotIterableText)
          /\ NoMessageText # NoRecordsText
          /\ NoRecordsText # NotIterableText
          /\ NoMessageText # NotIterableText]_vars

\* C7's case: a report is held and shown, and an event without records
\* has been refused after it.
C7_Witness ==
    /\ IsSome(dispatched)
    /\ IsSome(Val(dispatched).message)
    /\ Val(Val(dispatched).message).records.kind = "absent"
    /\ IsSome(lastTagData)
    /\ resultsShown = lastTagData
    /\ errorMessage = Some(NoRecordsText)

\* C8: in the report of a reading event, record_count is the number of raw
\* records and the length of records, the i-th decoded record has index i
\* (from 0) and comes from the i-th raw record; no records give a count of
\* 0 and an empty sequence.
C8_RecordsInWireOrder ==
    (IsSome(dispatched) /\ PassesPresenceChecks(Val(dispatched))) =>
        LET items == ItemsOf(Val(dispatched))
            msg == Val(lastTagData).ndef_message
        IN  /\ msg.record_count = Len(items)
            /\ Len(msg.records) = msg.record_count
            /\ items = <<>> => msg.records = <<>>
            /\ \A i \in 1..Len(items) :
                 /\ msg.records[i].index = i - 1
                 /\ msg.records[i].record_type = items[i].recordType
                 /\ msg.records[i].data.byte_length = Len(items[i].data.bytes)

\* C8's case: the event handled last held the url record, then the text
\* record, and so does the report.
C8_Witness ==
    /\ IsSome(dispatched)
    /\ PassesPresenceChecks(Val(dispatched))
    /\ Len(ItemsOf(Val(dispatched))) = 2
    /\ Val(lastTagData).ndef_message.record_count = 2
    /\ Val(lastTagData).ndef_message.records[1].record_type = "url"
    /\ Val(lastTagData).ndef_message.records[1].index = 0
    /\ Val(lastTagData).ndef_message.records[2].record_type = "text"
    /\ Val(lastTagData).ndef_message.records[2].index = 1

\* What a TextDecoder of label 'utf-16' (UTF-16LE) gives: code units of two
\* bytes, low byte first, a surrogate pair as one code point, a surrogate
\* alone or a last byte alone as U+FFFD, a leading byte order mark dropped.
RECURSIVE Utf16Run(_, _)
Utf16Run(bytes, i) ==
    IF i > Len(bytes) THEN <<>>
    ELSE IF i = Len(bytes) THEN <<Replacement>>
    ELSE LET unit == bytes[i] + 256 * bytes[i + 1]
             next == IF i + 3 <= Len(bytes) THEN bytes[i + 2] + 256 * bytes[i + 3] ELSE 0
         IN  IF 55296 <= unit /\ unit <= 56319
             THEN IF 56320 <= next /\ next <= 57343
                  THEN <<65536 + (unit - 55296) * 1024 + (next - 56320)>>
                       \o Utf16Run(bytes, i + 4)
                  ELSE <<Replacement>> \o Utf16Run(bytes, i + 2)
             ELSE IF 56320 <= unit /\ unit <= 57343
             THEN <<Replacement>> \o Utf16Run(bytes, i + 2)
             ELSE <<unit>> \o Utf16Run(bytes, i + 2)

Utf16Decode(bytes) ==
    IF Len(bytes) >= 2 /\ bytes[1] = 255 /\ bytes[2] = 254
    THEN Utf16Run(bytes, 3) ELSE Utf16Run(bytes, 1)

\* C11: the text bytes of a text record, those after the language code,
\* are decoded as UTF-16 when bit 7 of the status byte is set and as UTF-8
\* when it is clear: the decoder applied is the one metadata.encoding names.
C11_DecoderMatchesEncoding ==
    (Decoded /\ record.recordType = "text" /\ HasPayload(record)) =>
        LET bytes == record.data.bytes
            L == bytes[1] % 64
            textBytes == SubSeq(bytes, Min(1 + L, Len(bytes)) + 1, Len(bytes))
        IN  /\ IsSome(ParsedOf(record))
            /\ Val(ParsedOf(record)).metadata.encoding
                 = Some(IF bytes[1] >= 128 THEN "UTF-16" ELSE "UTF-8")
            /\ Val(ParsedOf(record)).content
                 = Some(IF bytes[1] >= 128 THEN Utf16Decode(textBytes)
                        ELSE TextDecode(textBytes))

\* What the code does instead: whatever the status byte, the text bytes of
\* an indexable byte array are decoded as UTF-8.
TextBytesAlwaysDecodedAsUtf8 ==
    (Decoded /\ record.recordType = "text" /\ HasPayload(record)
       /\ record.data.kind = "Uint8Array") =>
        LET bytes == record.data.bytes
            L == bytes[1] % 64
        IN  Val(ParsedOf(record)).content
              = Some(TextDecode(SubSeq(bytes, Min(1 + L, Len(bytes)) + 1, Len(bytes))))

\* In the only cases in which the code agrees with C11 on a byte array
\* with bit 7 set, the two decoders give the same text.
Utf16OnlyWhereDecodersAgree ==
    (Decoded /\ record.recordType = "text" /\ HasPayload(record)
       /\ record.data.kind = "Uint8Array" /\ record.data.bytes[1] >= 128) =>
        LET bytes == record.data.bytes
            L == bytes[1] % 64
            textBytes == SubSeq(bytes, Min(1 + L, Len(bytes)) + 1, Len(bytes))
        IN  Val(ParsedOf(record)).content = Some(Utf16Decode(textBytes))
              => Utf16Decode(textBytes) = TextDecode(textBytes)

\* The report is the complete one of event e: its message part has one
\* record per raw record of e, in order, and its technical part is of e.
CompleteReportOf(tagData, e) ==
    /\ tagData.ndef_message.has_message
    /\ tagData.ndef_message.record_count = Len(ItemsOf(e))
    /\ Len(tagData.ndef_message.records) = Len(ItemsOf(e))
    /\ \A i \in 1..Len(ItemsOf(e)) :
         /\ tagData.ndef_message.records[i].index = i - 1
         /\ tagData.ndef_message.records[i].record_type = ItemsOf(e)[i].recordType
         /\ tagData.ndef_message.records[i].data.byte_length = Len(ItemsOf(e)[i].data.bytes)
    /\ tagData.tag_technical.serial_number = e.serialNumber
    /\ tagData.tag_technical.max_size = (IF IsSome(e.tag) THEN Val(e.tag).maxSize ELSE None)

\* C12: the current report is empty at first; a reading event that passes
\* the presence checks replaces it by the complete report of that event,
\* and no other step changes it; what exportData hands out is the current
\* report as it is.
C12_SlotHoldsLatestReport ==
    /\ lastTagData = None
    /\ [][/\ IF IsSome(dispatched') /\ PassesPresenceChecks(Val(dispatched'))
             THEN /\ IsSome(lastTagData')
                  /\ CompleteReportOf(Val(lastTagData'), Val(dispatched'))
             ELSE lastTagData' = lastTagData
          /\ IsSome(exported') =>
                /\ Val(exported').data = lastTagData
                /\ Val(exported').alerted = (lastTagData = None)]_vars

\* C12's case: a report of two records was stored, a later event without a
\* message was refused, and the export hands out the report of two records.
C12_Witness ==
    /\ IsSome(exported)
    /\ IsSome(Val(exported).data)
    /\ Val(Val(exported).data).ndef_message.record_count = 2
    /\ Val(exported).data = lastTagData
    /\ errorMessage = Some(NoMessageText)

\* C13: from a clear until the next successful reading the results display
\* is hidden (only displayResults, run by a successful reading, shows it
\* again); in such a state the current report is empty and exportData
\* finds no tag data.
C13_ClearDiscardsReport ==
    resultsShown = None =>
        /\ lastTagData = None
        /\ IsSome(exported) => Val(exported).alerted

\* What the code does instead: clearResults leaves the current report as
\* it is.
ClearKeepsReport ==
    [][ClickClear => lastTagData' = lastTagData]_vars

\* A step of an error path: the catch of startScanning (scan() rejected, or
\* addEventListener on a reader that is null), handleNFCError, or the
\* catch of handleNFCReading.
ErrorPathStep ==
    \/ \E r \in ReaderIds, error \in ScanErrors : ScanRejected(r, error)
    \/ \E r \in ReaderIds : ScanResolved(r) /\ reader = None
    \/ \E r \in ReaderIds : ReadingErrorEvent(r)
    \/ IsSome(dispatched') /\ ~PassesPresenceChecks(Val(dispatched'))

\* A scan is active with its reader and listeners in place.
ScanInPlace ==
    /\ IsSome(reader)
    /\ Val(reader) \in activeReaders
    /\ readingListeners[Val(reader)] > 0
    /\ errorListeners[Val(reader)] > 0

\* C14: after every step of an error path an error message is shown, and
\* either isScanning is false, so that the next click starts a scan, or a
\* scan is active with its reader and listeners in place.
C14_ErrorLeavesReadyToScan ==
    [][ErrorPathStep => /\ IsSome(errorMessage')
                        /\ isScanning' => ScanInPlace']_vars

\* The part of C14 that holds: every error path shows a message.
ErrorPathShowsMessage ==
    [][ErrorPathStep => IsSome(errorMessage')]_vars

\* The error paths that keep C14: handleNFCError always stops the scan,
\* and with one reader at a time (no click on start while scan() is
\* pending, no stop before it resolves) the catches leave the scan state
\* as C14 has it.
ErrorPathsOfOneReader ==
    [][/\ (\E r \in ReaderIds : ReadingErrorEvent(r)) => ~isScanning'
       /\ (ErrorPathStep /\ readersCreated = 1) => (isScanning' => ScanInPlace')]_vars

\* C15: a record of any type whose payload has length 0, or is absent,
\* gives a decoded record with byte_length 0, without hex, ascii and parsed
\* content, and without error: the decoders of text and url are not run
\* on it.
C15_EmptyPayloadHasNoContent ==
    (IsSome(structuredRecord) /\ ~HasPayload(record)) =>
        /\ Val(structuredRecord).record_type = record.recordType
        /\ Val(structuredRecord).data.byte_length = 0
        /\ Val(structuredRecord).data.hex = None
        /\ Val(structuredRecord).data.ascii = None
        /\ Val(structuredRecord).data.parsed_content = None
        /\ Val(structuredRecord).parsing_error = None

\* C15's case: a text record whose payload is a byte array of length 0
\* has been decoded.
C15_Witness ==
    /\ IsSome(structuredRecord)
    /\ record.recordType = "text"
    /\ record.data = Data("Uint8Array", <<>>)
    /\ Val(structuredRecord).data.byte_length = 0
    /\ Val(structuredRecord).data.parsed_content = None

\* The tag of Scenario D: technologies ["MifareClassic"], maxSize 1024.
IsScenarioD == Inspected /\ tag.tech = Some(<<"MifareClassic">>) /\ tag.maxSize = Some(1024)

\* C16: for technologies ["MifareClassic"] and maxSize 1024 the label is
\* "ISO 14443-3A - Mifare Classic" and the memory description begins with
\* "1 kBytes: 64 sectors".
C16_ScenarioD ==
    IsScenarioD =>
        /\ Val(tagTypeLabel) = "ISO 14443-3A - Mifare Classic"
        /\ IsSome(Val(memoryInfo))
        /\ Len(Val(Val(memoryInfo))) >= Len("1 kBytes: 64 sectors")
        /\ SubSeq(Val(Val(memoryInfo)), 1, Len("1 kBytes: 64 sectors")) = "1 kBytes: 64 sectors"

\* What the code gives for Scenario D: 1024 bytes are 64 blocks, more than
\* 40, which the third branch describes as blocks.
ScenarioDAsComputed ==
    IsScenarioD =>
        /\ Val(tagTypeLabel) = "ISO 14443-3A - Mifare Classic"
        /\ Val(memoryInfo) = Some("1 kBytes: 64 blocks (16 bytes each)")

\* The tag details of the event given to the report builder, and their
\* set of technologies.
Built == IsSome(report)
TagOfEvent == Val(reportEvent.tag)
TechSetOfEvent ==
    IF IsSome(TagOfEvent.tech)
    THEN {Val(TagOfEvent.tech)[i] : i \in 1..Len(Val(TagOfEvent.tech))} ELSE {}

\* C17: in the report of an event whose tag details have no maxSize,
\* memory_info is "Mifare Classic (size unknown)" for technologies with
\* MifareClassic, "Mifare Ultralight (512 bytes)" for technologies with
\* MifareUltralight and without MifareClassic, and absent otherwise; with a
\* maxSize and neither technology it is "<floor(maxSize/1024)> kBytes
\* (<maxSize> bytes)".
C17_MemoryInfoInReport ==
    (Built /\ IsSome(reportEvent.tag)) =>
        LET memory == Val(report).tag_technical.memory_info IN
        /\ TagOfEvent.maxSize = None =>
             memory = IF "MifareClassic" \in TechSetOfEvent
                      THEN Some("Mifare Classic (size unknown)")
                      ELSE IF "MifareUltralight" \in TechSetOfEvent
                      THEN Some("Mifare Ultralight (512 bytes)")
                      ELSE None
        /\ (IsSome(TagOfEvent.maxSize)
              /\ TechSetOfEvent \cap {"MifareClassic", "MifareUltralight"} = {}) =>
             memory = Some(ToString(Val(TagOfEvent.maxSize) \div 1024) \o " kBytes ("
                           \o ToString(Val(TagOfEvent.maxSize)) \o " bytes)")

\* What the report holds: no memory_info without a maxSize; the two fixed
\* texts when maxSize is 0 (Mifare Classic) or anything (Mifare
\* Ultralight); the size in kBytes and bytes for a maxSize other than 0
\* and neither technology, and nothing when it is 0.
MemoryInfoAsComputed ==
    (Built /\ IsSome(reportEvent.tag)) =>
        LET memory == Val(report).tag_technical.memory_info
            maxSize == TagOfEvent.maxSize
        IN  /\ maxSize = None => memory = None
            /\ (maxSize = Some(0) /\ "MifareClassic" \in TechSetOfEvent) =>
                 memory = Some("Mifare Classic (size unknown)")
            /\ (IsSome(maxSize) /\ "MifareUltralight" \in TechSetOfEvent
                  /\ "MifareClassic" \notin TechSetOfEvent) =>
                 memory = Some("Mifare Ultralight (512 bytes)")
            /\ (IsSome(maxSize)
                  /\ TechSetOfEvent \cap {"MifareClassic", "MifareUltralight"} = {}) =>
                 memory = IF Val(maxSize) = 0 THEN None
                          ELSE Some(ToString(Val(maxSize) \div 1024) \o " kBytes ("
                                    \o ToString(Val(maxSize)) \o " bytes)")

\* The text "Hex: <hex>\nASCII: <ascii>" of a byte sequence.
HexAndAscii(bytes) ==
    <<72, 101, 120, 58, 32>> \o toHex(bytes) \o <<10>>
    \o <<65, 83, 67, 73, 73, 58, 32>> \o toAscii(bytes)

EmptyText == <<69, 109, 112, 116, 121>>
NoDataText == <<78, 111, 32, 100, 97, 116, 97, 32, 97, 118, 97, 105, 108, 97, 98, 108, 101>>

\* C18: formatRawData returns "Empty" for an absent payload and for one of
\* zero length, and for a payload that is not empty "Hex: <hex>" and
\* "ASCII: <ascii>" joined by a newline, rendering exactly its bytes.
C18_RawTextOfPayload ==
    IsSome(rawText) =>
        IF record.data.kind = "null" \/ byteLength(record.data) = 0
        THEN Val(rawText) = EmptyText
        ELSE Val(rawText) = HexAndAscii(record.data.bytes)

\* What formatRawData returns: "No data available" for an absent payload,
\* "Empty" for one of zero length, and the rendering of the elements
\* Array.from finds in the payload, which are its bytes in a Uint8Array
\* and none in a DataView.
RawTextAsComputed ==
    IsSome(rawText) =>
        IF record.data.kind = "null" THEN Val(rawText) = NoDataText
        ELSE IF byteLength(record.data) = 0 THEN Val(rawText) = EmptyText
        ELSE IF record.data.kind = "Uint8Array"
        THEN Val(rawText) = HexAndAscii(record.data.bytes)
        ELSE Val(rawText) = HexAndAscii(<<>>)

\* The number a text of hexadecimal digits denotes.
HexDigitValue(c) == CHOOSE d \in 0..15 : SubSeq("0123456789abcdef", d + 1, d + 1) = c
RECURSIVE HexValue(_)
HexValue(text) ==
    IF Len(text) = 0 THEN 0
    ELSE 16 * HexValue(SubSeq(text, 1, Len(text) - 1))
         + HexDigitValue(SubSeq(text, Len(text), Len(text)))

\* text is "0x" followed by exactly `digits` hexadecimal digits denoting n.
IsHexOf(text, digits, n) ==
    /\ Len(text) = 2 + digits
    /\ SubSeq(text, 1, 2) = "0x"
    /\ \A i \in 3..Len(text) :
          \E d \in 0..15 : SubSeq("0123456789abcdef", d + 1, d + 1) = SubSeq(text, i, i)
    /\ HexValue(SubSeq(text, 3, Len(text))) = n

\* What the reading event reported of one field of the tag details.
Reported(field) == IF IsSome(reportEvent.tag) THEN TagOfEvent[field] ELSE None

RowsNamed(field) == {i \in 1..Len(Val(csv)) : Val(csv)[i].field = field}
ValueOfRow(field) == Val(csv)[CHOOSE i \in RowsNamed(field) : TRUE].value

\* The rows of the j-th record (from 0) are labelled "Record j+1" and
\* carry its type, TNF and length, in the order of the records.
RecordsNumberedFromOne ==
    LET records == Val(report).ndef_message.records IN
    /\ \A j \in 0..(Len(records) - 1) :
          LET label == "Record " \o ToString(j + 1) IN
          /\ \E i \in RowsNamed(label \o " Type") :
                /\ Val(csv)[i].value = records[j + 1].record_type
                /\ Val(csv)[i + 1] = Row(label \o " TNF", ToString(records[j + 1].tnf))
                /\ Val(csv)[i + 2] = Row(label \o " Data Length",
                                         ToString(records[j + 1].data.byte_length))
                /\ Val(csv)[i + 3].field = label \o " Hex Data"
                /\ Val(csv)[i + 4].field = label \o " ASCII Data"
          /\ Cardinality(RowsNamed(label \o " Type")) = 1
          /\ j > 0 => (CHOOSE i \in RowsNamed(label \o " Type") : TRUE)
                       > (CHOOSE i \in RowsNamed("Record " \o ToString(j) \o " Type") : TRUE)
    /\ RowsNamed("Record 0 Type") = {}
    /\ RowsNamed("Record " \o ToString(Len(records) + 1) \o " Type") = {}

\* C20: the CSV export of a report renders each tag technical field with
\* the value stored in the report and "N/A" only for a field that is
\* absent (a stored false or 0 is rendered as false or 0), and labels the
\* rows of the j-th record (from 0, in wire order) "Record j+1".
C20_CsvRendersStoredValues ==
    IsSome(csv) =>
        LET technical == Val(report).tag_technical IN
        /\ ValueOfRow("Serial Number") = OrElse(technical.serial_number, "N/A")
        /\ ValueOfRow("ATQA") = OrElse(technical.atqa, "N/A")
        /\ ValueOfRow("SAK") = OrElse(technical.sak, "N/A")
        /\ ValueOfRow("Max Size") = IF IsSome(technical.max_size)
                                    THEN ToString(Val(technical.max_size)) ELSE "N/A"
        /\ ValueOfRow("Is Writable") = IF IsSome(technical.is_writable)
                                       THEN BoolStr(Val(technical.is_writable)) ELSE "N/A"
        /\ ValueOfRow("Can Make Read-Only") =
              IF IsSome(technical.can_make_readonly)
              THEN BoolStr(Val(technical.can_make_readonly)) ELSE "N/A"
        /\ RecordsNumberedFromOne

\* What the export writes: the stored text of serial_number, atqa and sak,
\* the stored max_size unless it is 0, "true" for a stored true, and "N/A"
\* for every other field, absent or stored as 0 or false; the rows of the
\* records are numbered from 1 in their order.
CsvAsComputed ==
    IsSome(csv) =>
        LET technical == Val(report).tag_technical IN
        /\ ValueOfRow("Serial Number") = OrElse(technical.serial_number, "N/A")
        /\ ValueOfRow("ATQA") = OrElse(technical.atqa, "N/A")
        /\ ValueOfRow("SAK") = OrElse(technical.sak, "N/A")
        /\ ValueOfRow("Max Size") = IF technical.max_size \in {None, Some(0)} THEN "N/A"
                                    ELSE ToString(Val(technical.max_size))
        /\ ValueOfRow("Is Writable") = IF technical.is_writable = Some(TRUE)
                                       THEN "true" ELSE "N/A"
        /\ ValueOfRow("Can Make Read-Only") = IF technical.can_make_readonly = Some(TRUE)
                                              THEN "true" ELSE "N/A"
        /\ RecordsNumberedFromOne

\* C21: in every reachable state of the scanner, isScanning implies that
\* the reader reference is not null.
C21_ScanningHasReader == isScanning => IsSome(reader)

\* A state with isScanning and no reader arises in one way only: a scan()
\* promise resolves (lines 260-268) after stopScanning has set the reader
\* to null.
ScanningWithoutReaderOnlyByLateResolution ==
    [][(isScanning' /\ ~IsSome(reader')) =>
         \/ isScanning /\ ~IsSome(reader)
         \/ /\ ~IsSome(reader)
            /\ \E r \in scanPromises : /\ scanPromises' = scanPromises \ {r}
                                         /\ activeReaders' = activeReaders \cup {r}]_vars

\* A step in which the oldest pending auto-stop timer fires.
TimerStep == timers > 0 /\ timers' = timers - 1

\* The timer that fires next was set in a session that has been followed by
\* a later one: scanning was started again after the reading that set it.
OldestTimerIsStale == timers > 0 /\ staleTimers > 0

\* C22: an auto-stop timer stops only the session of the reading that set
\* it: when scanning was started again before it fires, its firing neither
\* sets isScanning to false nor clears the reader of the newer session.
C22_StaleTimerSparesNewSession ==
    [][(TimerStep /\ OldestTimerIsStale) =>
         (isScanning' = isScanning /\ reader' = reader)]_vars

\* Every timer that fires stops whatever session is current: it leaves
\* isScanning false and the reader null.
TimerStopsCurrentSession ==
    [][TimerStep => (~isScanning' /\ reader' = None /\ statusIndicator' = "ready")]_vars

\* Scanning has been stopped and not started again: stopScanning has run
\* on a session whose reader goes on dispatching.
Stopped == ~isScanning /\ reader = None /\ scanPromises = {} /\ activeReaders # {}

\* C23: once scanning has been stopped, a reading event of a reader of an
\* earlier session neither replaces the current report nor updates the
\* results display, until scanning is started again.
C23_NoReportAfterStop ==
    [][(Stopped /\ IsSome(dispatched')) =>
         (lastTagData' = lastTagData /\ resultsShown' = resultsShown)]_vars

\* stopScanning removes no listener and ends no scan: a step that takes
\* isScanning from true to false leaves the listeners of every reader and
\* the set of dispatching readers as they were.
StopKeepsListeners ==
    [][(isScanning /\ ~isScanning') =>
         /\ readingListeners' = readingListeners
         /\ errorListeners' = errorListeners
         /\ activeReaders' = activeReaders]_vars

\* C24: no reader ever has more than one 'reading' listener and one
\* 'readingerror' listener of the scanner, so that a reading event is
\* handled at most once.
C24_OneListenerPerReader ==
    \A r \in ReaderIds : readingListeners[r] <= 1 /\ errorListeners[r] <= 1

RECURSIVE SumOver(_, _)
SumOver(f, n) == IF n = 0 THEN 0 ELSE f[n] + SumOver(f, n - 1)

\* Every scan() that resolves adds at most one pair of listeners, to the
\* reader that this.reader names at that moment, which need not be the one
\* whose scan() resolved: the listeners are as many as the scans resolved
\* at most, and only readers made so far have any.
ListenersFollowCurrentReader ==
    /\ readingListeners = errorListeners
    /\ SumOver(readingListeners, MaxReaders) <= Cardinality(activeReaders)
    /\ \A r \in ReaderIds : readingListeners[r] > 0 => r <= readersCreated

\* C25: the status indicator shows 'scanning' only while isScanning is
\* true: every step that sets isScanning to false moves the indicator away
\* from 'scanning', and no step sets it to 'scanning' without isScanning
\* being true afterwards.
C25_ScanningStatusOnlyWhileScanning ==
    /\ [](statusIndicator = "scanning" => isScanning)
    /\ [][(isScanning /\ ~isScanning') => statusIndicator' # "scanning"]_vars
    /\ [][(statusIndicator # "scanning" /\ statusIndicator' = "scanning") => isScanning']_vars

\* Scanning was started and shown as 'scanning', a tag was read, and the
\* session has been stopped: the indicator has left 'scanning'.
C25_Witness ==
    /\ ~isScanning /\ reader = None
    /\ activeReaders # {}
    /\ IsSome(lastTagData)
    /\ statusIndicator = "ready"

\* The record in the harness is a text or url record with a payload that
\* is not empty, and both decoders have run on it.
BothDecoded ==
    /\ IsSome(textualResult) /\ IsSome(parsedResult)
    /\ record.recordType \in {"text", "url"}
    /\ HasPayload(record)

\* What the structured decoder derived, as the lines the textual decoder
\* prints for it.
LinesOfStructured ==
    LET parsed == Val(Val(parsedResult).value) IN
    IF record.recordType = "text"
    THEN <<Line("Language", Val(parsed.metadata.language)),
           Line("Encoding", Val(parsed.metadata.encoding)),
           Line("Text", Val(parsed.content))>>
    ELSE <<Line("URL", Val(parsed.content)),
           Line("Prefix Code", parsed.metadata.prefix_code)>>

StructuredFailed == IsSome(Val(Val(parsedResult).value).error)
TextualFailed == Val(textualResult)[1].label = "Error parsing record"

\* C26: on every text or url record with a payload that is not empty the
\* structured and the textual decoder derive the same language, encoding
\* label and text, or the same prefix code and full URL, also for prefix
\* codes outside 0..35 and language lengths beyond the payload.
C26_DecodersAgree ==
    BothDecoded =>
        IF StructuredFailed THEN TextualFailed
        ELSE Val(textualResult) = LinesOfStructured

\* The two decoders agree on every url record, and fail together on every
\* payload that is a DataView; on a text record in a Uint8Array the
\* textual decoder always ends in its catch, with the message of the
\* rejected second argument of decode and the raw rendering of the
\* payload, while the structured decoder succeeds.
DecodersAsComputed ==
    BothDecoded =>
        /\ record.recordType = "url" =>
             IF StructuredFailed THEN TextualFailed
             ELSE Val(textualResult) = LinesOfStructured
        /\ record.data.kind = "DataView" =>
             /\ StructuredFailed
             /\ Val(textualResult) = <<Line("Error parsing record", DataSliceNotAFunction),
                                       Line("Raw Data", HexAndAscii(<<>>))>>
        /\ (record.recordType = "text" /\ record.data.kind = "Uint8Array") =>
             /\ ~StructuredFailed
             /\ Val(textualResult) = <<Line("Error parsing record", NotDecodeOptions),
                                       Line("Raw Data", HexAndAscii(record.data.bytes))>>
====
